---- MODULE Spec2Model ----
(***************************************************************************)
(* Model of the Claude binary discovery core of jms830/opcode:             *)
(*   src-tauri/src/claude_binary.rs   version parser, scanners, catalog,   *)
(*                                    selection policy, version probe,     *)
(*                                    create_command_with_env              *)
(*   src-tauri/src/shell_environment.rs  shell detection, path translation *)
(*                                    and command bridging for WSL         *)
(* Strings whose characters the code inspects (version strings, probe      *)
(* output, Windows paths, command arguments) are sequences of              *)
(* one-character strings; strings the code only compares for equality      *)
(* (scanned paths, source tags) are TLA+ strings.                          *)
(***************************************************************************)
EXTENDS Integers, Sequences, FiniteSets, TLC

VARIABLES
    \* ---- compare_versions harness ----
    va,         \* first argument of compare_versions
    vb,         \* second argument of compare_versions
    ord,        \* the Ordering returned, "none" before the call
    \* ---- host environment read by the scanners ----
    platform,   \* "unix" | "windows": the cfg(unix) / cfg(windows) build
    fs,         \* file system: path -> [exists, version printed by --version]
    whichOut,   \* path taken from the output of `which claude` / `where claude`
                \* (after "aliased to", or its first line), or NoPath
    nvmBin,     \* NVM_BIN: the node version whose bin directory it names, or Unset
    dirOrder,   \* order in which read_dir enumerates the node version directories
    pathProbe,  \* outcome of running the bare name with --version through PATH
    wsl,        \* WSL distribution -> what find_claude_in_wsl and the probe return
    store,      \* settings database (agents.db, table app_settings) as the last
                \* find_claude_binary call found it
    \* ---- results of the operations ----
    catalog,    \* last value returned by discover_system_installations
    best,       \* last value returned by select_best_installation
    found,      \* result of find_claude_binary
    listing,    \* result of discover_claude_installations
    \* ---- extract_version_from_output harness ----
    outText,    \* stdout of the probe, after from_utf8_lossy
    extracted,  \* [done, res]: the Option returned
    \* ---- windows_to_wsl_path harness ----
    winPath,    \* the argument
    wslPath,    \* [done, path]: the String returned
    \* ---- create_wsl_command harness ----
    cmdArgs,    \* the args slice
    wslCmd,     \* [done, ...]: the Command built
    \* ---- create_command_with_env harness ----
    parentEnv,  \* environment of the running process: name -> value
    program,    \* the program argument
    childCmd,   \* [done, ...]: the Command built
    \* ---- detect_available_shells harness ----
    shellHost,  \* what `wsl --list --verbose`, the Git Bash paths and
                \* `where bash` give on this host
    shells,     \* [done, ...]: the AvailableShells returned
    \* ---- one discovery pass, subprocess by subprocess ----
    passIdx,    \* number of subprocess calls of the pass that have returned
    proc,       \* the subprocess the pass waits for
    \* ---- ShellEnvironment Display / FromStr harness ----
    shellText,  \* the string handed to from_str
    parsed,     \* [done, res]: the Result returned
    \* ---- shell configuration commands (commands/shell.rs) ----
    settings,   \* the shell rows of table app_settings: key -> Option value
    calls       \* per caller: the command it runs, its position in the
                \* command, what it has read so far and what it returned

verVars == <<va, vb, ord>>
envVars == <<platform, fs, whichOut, nvmBin, dirOrder, pathProbe, wsl>>
outVars == <<store, catalog, best, found, listing>>
extractVars == <<outText, extracted>>
pathVars == <<winPath, wslPath>>
wslCmdVars == <<cmdArgs, wslCmd>>
cmdEnvVars == <<parentEnv, program, childCmd>>
shellVars == <<shellHost, shells>>
passVars == <<passIdx, proc>>
parseVars == <<shellText, parsed>>
configVars == <<settings, calls>>
vars == <<va, vb, ord, platform, fs, whichOut, nvmBin, dirOrder, pathProbe, wsl,
          store, catalog, best, found, listing, outText, extracted, winPath,
          wslPath, cmdArgs, wslCmd, parentEnv, program, childCmd, shellHost,
          shells, passIdx, proc, shellText, parsed, settings, calls>>

(***************************************************************************)
(* Bounds                                                                  *)
(***************************************************************************)
\* longest version string enumerated exhaustively over VerAlphabet
MaxVerLen == 2
\* most installed binaries on the host at once: files at scanned locations, WSL
\* installations and the binary the bare name resolves to through PATH
MaxFiles == 2
\* longest probe output enumerated exhaustively over OutAlphabet
MaxOutLen == 7
\* longest path (or path behind a WSL UNC head) enumerated exhaustively over
\* PathAlphabet
MaxPathLen == 4
\* longest command argument enumerated exhaustively over ArgAlphabet
MaxArgLen == 2
\* most lines in the output of the WSL listing command
MaxLines == 3
\* longest shell environment text enumerated exhaustively over NameAlphabet
MaxNameLen == 3

(***************************************************************************)
(* Characters                                                              *)
(***************************************************************************)
AsciiDigits == {"0", "1", "2", "3", "4", "5", "6", "7", "8", "9"}

\* "sup2" stands for U+00B2 SUPERSCRIPT TWO: char::is_numeric is true for it,
\* u32::from_str rejects it.
OtherNumeric == {"sup2"}

\* char::is_numeric (claude_binary.rs:808)
IsNumeric(c) == c \in AsciiDigits \cup OtherNumeric

DigitVal(c) ==
    CASE c = "0" -> 0 [] c = "1" -> 1 [] c = "2" -> 2 [] c = "3" -> 3
      [] c = "4" -> 4 [] c = "5" -> 5 [] c = "6" -> 6 [] c = "7" -> 7
      [] c = "8" -> 8 [] c = "9" -> 9

(***************************************************************************)
(* u32 values are kept as numerals: the sequence of decimal digits without *)
(* leading zeros (zero is the empty sequence), so that values up to        *)
(* u32::MAX are represented exactly.                                       *)
(***************************************************************************)
U32MaxNumeral == <<4, 2, 9, 4, 9, 6, 7, 2, 9, 5>>

Zero == <<>>

RECURSIVE StripLeadingZeros(_)
StripLeadingZeros(ds) ==
    IF ds = <<>> THEN <<>>
    ELSE IF Head(ds) = 0 THEN StripLeadingZeros(Tail(ds))
    ELSE ds

RECURSIVE LexCmp(_, _)
\* digit-wise comparison of two numerals of the same length
LexCmp(x, y) ==
    IF x = <<>> THEN "Equal"
    ELSE IF Head(x) < Head(y) THEN "Less"
    ELSE IF Head(x) > Head(y) THEN "Greater"
    ELSE LexCmp(Tail(x), Tail(y))

RECURSIVE TextCmp(_, _)
TextCmp(x, y) ==
    IF x = <<>> /\ y = <<>> THEN "Equal"
    ELSE IF x = <<>> THEN "Less"
    ELSE IF y = <<>> THEN "Greater"
    ELSE IF Head(x) < Head(y) THEN "Less"
    ELSE IF Head(x) > Head(y) THEN "Greater"
    ELSE TextCmp(Tail(x), Tail(y))

\* mutant of CmpU32: the segments compared as text, character by character
CmpU32Text(x, y) == TextCmp(x, y)

\* u32::cmp on numerals (claude_binary.rs:830)
CmpU32(x, y) ==
    IF Len(x) < Len(y) THEN "Less"
    ELSE IF Len(x) > Len(y) THEN "Greater"
    ELSE LexCmp(x, y)

\* str::parse::<u32>() on a string of numeric characters (claude_binary.rs:810):
\* Err on the empty string, on a character that is not an ASCII digit and on a
\* value above u32::MAX.
ParseU32(t) ==
    IF t = <<>> \/ \E i \in 1..Len(t) : t[i] \notin AsciiDigits
    THEN [ok |-> FALSE, val |-> Zero]
    ELSE LET n == StripLeadingZeros([i \in 1..Len(t) |-> DigitVal(t[i])])
         IN  IF CmpU32(n, U32MaxNumeral) = "Greater"
             THEN [ok |-> FALSE, val |-> Zero]
             ELSE [ok |-> TRUE, val |-> n]

RECURSIVE Split(_, _)
\* str::split(sep): the segments between separators, empty ones included
Split(s, sep) ==
    IF \A i \in 1..Len(s) : s[i] # sep THEN <<s>>
    ELSE LET k == CHOOSE i \in 1..Len(s) :
                      s[i] = sep /\ \A j \in 1..(i - 1) : s[j] # sep
         IN  <<SubSeq(s, 1, k - 1)>> \o Split(SubSeq(s, k + 1, Len(s)), sep)

RECURSIVE TakeWhileNumeric(_)
\* s.chars().take_while(|c| c.is_numeric()).collect::<String>()
TakeWhileNumeric(s) ==
    IF s = <<>> \/ ~IsNumeric(Head(s)) THEN <<>>
    ELSE <<Head(s)>> \o TakeWhileNumeric(Tail(s))

RECURSIVE FilterMapParse(_)
\* .filter_map(|s| ... .parse().ok()): a segment that does not parse yields no
\* element
FilterMapParse(segs) ==
    IF segs = <<>> THEN <<>>
    ELSE LET r == ParseU32(TakeWhileNumeric(Head(segs)))
         IN  (IF r.ok THEN <<r.val>> ELSE <<>>) \o FilterMapParse(Tail(segs))

\* a_parts / b_parts of compare_versions
VersionParts(s) == FilterMapParse(Split(s, "."))

\* a_parts.get(i).unwrap_or(&0), i counted from 1
PartAt(parts, i) == IF i <= Len(parts) THEN parts[i] ELSE Zero

Max(x, y) == IF x >= y THEN x ELSE y

Min(x, y) == IF x <= y THEN x ELSE y

RECURSIVE ComparePartsZip(_, _, _)
\* mutant of ComparePartsFrom: the loop stops at the shorter version (a zip of
\* the two part lists) instead of padding it with zeros
ComparePartsZip(ap, bp, i) ==
    IF i > Min(Len(ap), Len(bp)) THEN "Equal"
    ELSE LET c == CmpU32(PartAt(ap, i), PartAt(bp, i))
         IN  IF c = "Equal" THEN ComparePartsZip(ap, bp, i + 1) ELSE c

RECURSIVE ComparePartsFrom(_, _, _)
\* the loop "for i in 0..max(a_parts.len(), b_parts.len())"
ComparePartsFrom(ap, bp, i) ==
    IF i > Max(Len(ap), Len(bp)) THEN "Equal"
    ELSE LET c == CmpU32(PartAt(ap, i), PartAt(bp, i))
         IN  IF c = "Equal" THEN ComparePartsFrom(ap, bp, i + 1) ELSE c

compare_versions(a, b) == ComparePartsFrom(VersionParts(a), VersionParts(b), 1)

\* Ordering::reverse
Reverse(o) ==
    CASE o = "Less" -> "Greater" [] o = "Greater" -> "Less" [] OTHER -> o

(***************************************************************************)
(* Inputs of the compare_versions harness                                  *)
(***************************************************************************)
VerAlphabet == {"0", "1", ".", "x"}

StringsUpTo(n) == UNION {[1..k -> VerAlphabet] : k \in 0..n}

V_1_2_10 == <<"1", ".", "2", ".", "1", "0">>
V_1_2_9 == <<"1", ".", "2", ".", "9">>
V_1_2 == <<"1", ".", "2">>
V_1_2_0 == <<"1", ".", "2", ".", "0">>
V_1_x_5 == <<"1", ".", "x", ".", "5">>
V_1_0_5 == <<"1", ".", "0", ".", "5">>
V_1_1_0 == <<"1", ".", "1", ".", "0">>
V_1_5 == <<"1", ".", "5">>
V_1_0_0 == <<"1", ".", "0", ".", "0">>
V_1_0_0_beta == <<"1", ".", "0", ".", "0", "-", "b">>
V_1_0_0_beta_2 == <<"1", ".", "0", ".", "0", "-", "b", ".", "2">>
\* last segment 4294967295 = u32::MAX
V_1_0_u32max ==
    <<"1", ".", "0", ".", "4", "2", "9", "4", "9", "6", "7", "2", "9", "5">>
\* last segment 4294967296 = u32::MAX + 1
V_1_0_overflow ==
    <<"1", ".", "0", ".", "4", "2", "9", "4", "9", "6", "7", "2", "9", "6">>
V_1_sup2_5 == <<"1", ".", "sup2", ".", "5">>

SampleVersions ==
    {V_1_2_10, V_1_2_9, V_1_2, V_1_2_0, V_1_x_5, V_1_0_5, V_1_1_0, V_1_5,
     V_1_0_0, V_1_0_0_beta, V_1_0_0_beta_2, V_1_0_u32max, V_1_0_overflow,
     V_1_sup2_5}

VersionInputs == StringsUpTo(MaxVerLen) \cup SampleVersions

(***************************************************************************)
(* Data model (claude_binary.rs:19-41)                                     *)
(***************************************************************************)
\* Option<String> of a version
None == [some |-> FALSE, v |-> <<>>]
Some(v) == [some |-> TRUE, v |-> v]

\* Option<String> of a path or of a distribution name
NoPath == "(none)"
NoDistro == "(none)"

ClaudeInstallation(path, version, source, distro) ==
    [path |-> path, version |-> version, source |-> source,
     installation_type |-> "System", wsl_distro |-> distro]

(***************************************************************************)
(* The host: the locations the scanners look at.  HOME is /home/u,         *)
(* USERPROFILE is C:\Users\u, NVM_HOME is C:\nvm.                          *)
(***************************************************************************)
NodeVersions == {"v18", "v20"}

DirOrders == {<<"v18", "v20">>, <<"v20", "v18">>}

\* entry.path().join("bin").join("claude") / entry.path().join("claude.exe")
NvmClaudePath(plat, node) ==
    IF plat = "unix"
    THEN (IF node = "v18" THEN "/home/u/.nvm/versions/node/v18/bin/claude"
          ELSE "/home/u/.nvm/versions/node/v20/bin/claude")
    ELSE (IF node = "v18" THEN "C:\\nvm\\v18\\claude.exe"
          ELSE "C:\\nvm\\v20\\claude.exe")

\* format!("nvm ({})", node_version)
NvmSource(node) == IF node = "v18" THEN "nvm (v18)" ELSE "nvm (v20)"

\* format!("wsl ({})", distro)
WslSource(distro) == IF distro = "Ubuntu" THEN "wsl (Ubuntu)" ELSE "wsl (Debian)"

\* paths_to_check of find_standard_installations, cfg(unix)
UnixStandardPaths ==
    << <<"/usr/local/bin/claude", "system">>,
       <<"/opt/homebrew/bin/claude", "homebrew">>,
       <<"/usr/bin/claude", "system">>,
       <<"/bin/claude", "system">>,
       <<"/home/u/.claude/local/claude", "claude-local">>,
       <<"/home/u/.local/bin/claude", "local-bin">>,
       <<"/home/u/.npm-global/bin/claude", "npm-global">>,
       <<"/home/u/.yarn/bin/claude", "yarn">>,
       <<"/home/u/.bun/bin/claude", "bun">>,
       <<"/home/u/bin/claude", "home-bin">>,
       <<"/home/u/node_modules/.bin/claude", "node-modules">>,
       <<"/home/u/.config/yarn/global/node_modules/.bin/claude", "yarn-global">> >>

\* paths_to_check of find_standard_installations, cfg(windows)
WindowsStandardPaths ==
    << <<"C:\\Users\\u\\.claude\\local\\claude.exe", "claude-local">>,
       <<"C:\\Users\\u\\.local\\bin\\claude.exe", "local-bin">>,
       <<"C:\\Users\\u\\AppData\\Roaming\\npm\\claude.cmd", "npm-global">>,
       <<"C:\\Users\\u\\.yarn\\bin\\claude.cmd", "yarn">>,
       <<"C:\\Users\\u\\.bun\\bin\\claude.exe", "bun">> >>

StandardPaths(plat) ==
    IF plat = "unix" THEN UnixStandardPaths ELSE WindowsStandardPaths

\* Command::new("claude") / Command::new("claude.exe") of the PATH fallback
BareName(plat) == IF plat = "unix" THEN "claude" ELSE "claude.exe"

\* the files that may exist on the modelled host; every other location the
\* scanners look at is absent
Universe(plat) ==
    IF plat = "unix"
    THEN {"/usr/local/bin/claude", "/opt/homebrew/bin/claude",
          "/home/u/.local/bin/claude",
          NvmClaudePath("unix", "v18"), NvmClaudePath("unix", "v20")}
    ELSE {"C:\\Users\\u\\.local\\bin\\claude.exe",
          "C:\\Users\\u\\AppData\\Roaming\\npm\\claude.cmd",
          NvmClaudePath("windows", "v18"), NvmClaudePath("windows", "v20")}

\* what `<path> --version` lets get_claude_version return
ProbedVersions == {None, Some(V_1_2_9), Some(V_1_2_10)}

Absent == [exists |-> FALSE, version |-> None]

FileStates == {Absent} \cup {[exists |-> TRUE, version |-> o] : o \in ProbedVersions}

WslDistros == <<"Ubuntu", "Debian">>

WslPaths == {"/usr/local/bin/claude", "/home/u/.local/bin/claude"}

WslNotFound == [found |-> FALSE, path |-> NoPath, version |-> None]

WslStates ==
    {WslNotFound} \cup
    {[found |-> TRUE, path |-> p, version |-> o] : p \in WslPaths, o \in ProbedVersions}

\* a `which`/`where` answer naming a file that is gone
StalePath == "/opt/old/claude"

\* the stored claude_binary_path of a user-chosen binary
CustomPath == "/custom/claude"

\* app_settings as find_claude_binary sees it: whether agents.db exists and
\* opens, the claude_binary_path row, whether that path is a regular file now,
\* and the claude_installation_preference row
StoreStates ==
    {[db |-> "missing", binaryPath |-> NoPath, isFile |-> FALSE,
      preference |-> NoPath],
     [db |-> "unopenable", binaryPath |-> NoPath, isFile |-> FALSE,
      preference |-> NoPath],
     [db |-> "open", binaryPath |-> NoPath, isFile |-> FALSE,
      preference |-> NoPath],
     [db |-> "open", binaryPath |-> CustomPath, isFile |-> FALSE,
      preference |-> "bundled"],
     [db |-> "open", binaryPath |-> CustomPath, isFile |-> TRUE,
      preference |-> NoPath]}

\* PathBuf::exists() && is_file()
FileExists(p) == p \in DOMAIN fs /\ fs[p].exists

ExistingFiles == {p \in DOMAIN fs : fs[p].exists}

ExistingNodes == {n \in NodeVersions : FileExists(NvmClaudePath(platform, n))}

(***************************************************************************)
(* Path probe (claude_binary.rs:722-736)                                   *)
(***************************************************************************)
\* get_claude_version(path).ok().flatten(): the version the probe printed; None
\* when the spawn fails, the exit status is not zero or no version is printed
get_claude_version(path) == IF FileExists(path) THEN fs[path].version ELSE None

(***************************************************************************)
(* Source scanners                                                         *)
(***************************************************************************)
\* try_which_command: at most one candidate, tagged "which" (unix) or "where"
\* (windows)
try_which_command ==
    IF whichOut = NoPath THEN <<>>
    ELSE IF ~FileExists(whichOut) THEN <<>>
    ELSE <<ClaudeInstallation(whichOut, get_claude_version(whichOut),
                              IF platform = "unix" THEN "which" ELSE "where",
                              NoDistro)>>

RECURSIVE ScanNodeDirs(_)
\* the read_dir loop of find_nvm_installations over the entries in `order`
ScanNodeDirs(order) ==
    IF order = <<>> THEN <<>>
    ELSE LET p == NvmClaudePath(platform, Head(order))
         IN  (IF FileExists(p)
              THEN <<ClaudeInstallation(p, get_claude_version(p),
                                        NvmSource(Head(order)), NoDistro)>>
              ELSE <<>>) \o ScanNodeDirs(Tail(order))

\* find_nvm_installations under a given read_dir order: NVM_BIN first (unix
\* only), then the version directories
NvmInstallationsIn(order) ==
    (IF platform = "unix" /\ nvmBin # "Unset"
        /\ FileExists(NvmClaudePath(platform, nvmBin))
     THEN <<ClaudeInstallation(NvmClaudePath(platform, nvmBin),
                               get_claude_version(NvmClaudePath(platform, nvmBin)),
                               "nvm-active", NoDistro)>>
     ELSE <<>>) \o ScanNodeDirs(order)

find_nvm_installations == NvmInstallationsIn(dirOrder)

RECURSIVE CheckPathsVersionedOnly(_)
\* a loop that pushes a file only when its probe gives a version (mutant of
\* CheckPaths)
CheckPathsVersionedOnly(table) ==
    IF table = <<>> THEN <<>>
    ELSE LET path == Head(table)[1]
             source == Head(table)[2]
         IN  (IF FileExists(path) /\ get_claude_version(path).some
              THEN <<ClaudeInstallation(path, get_claude_version(path), source,
                                        NoDistro)>>
              ELSE <<>>) \o CheckPathsVersionedOnly(Tail(table))

RECURSIVE CheckPaths(_)
\* the loop "for (path, source) in paths_to_check"
CheckPaths(table) ==
    IF table = <<>> THEN <<>>
    ELSE LET path == Head(table)[1]
             source == Head(table)[2]
         IN  (IF FileExists(path)
              THEN <<ClaudeInstallation(path, get_claude_version(path), source,
                                        NoDistro)>>
              ELSE <<>>) \o CheckPaths(Tail(table))

\* the bare-name fallback: pushed when `claude --version` runs and exits 0
PathFallback ==
    IF pathProbe.ok
    THEN <<ClaudeInstallation(BareName(platform), pathProbe.version, "PATH",
                              NoDistro)>>
    ELSE <<>>

RECURSIVE ScanDistros(_)
\* the loop "for distro in distros" of find_wsl_installations
ScanDistros(distros) ==
    IF distros = <<>> THEN <<>>
    ELSE LET d == Head(distros)
         IN  (IF wsl[d].found
              THEN <<ClaudeInstallation(wsl[d].path, wsl[d].version,
                                        WslSource(d), d)>>
              ELSE <<>>) \o ScanDistros(Tail(distros))

find_wsl_installations == ScanDistros(WslDistros)

find_standard_installations ==
    CheckPaths(StandardPaths(platform)) \o PathFallback
        \o (IF platform = "windows" THEN find_wsl_installations ELSE <<>>)

(***************************************************************************)
(* Installation catalog builder (claude_binary.rs:157-176)                 *)
(***************************************************************************)
RECURSIVE RetainKeepLast(_, _)
\* mutant of Retain: of several entries with one path the last one is kept
RetainKeepLast(installs, unique_paths) ==
    IF installs = <<>> THEN <<>>
    ELSE IF \E k \in 2..Len(installs) : installs[k].path = Head(installs).path
         THEN RetainKeepLast(Tail(installs), unique_paths)
         ELSE <<Head(installs)>> \o RetainKeepLast(Tail(installs), unique_paths)

RECURSIVE Retain(_, _)
\* installations.retain(|install| unique_paths.insert(install.path.clone()))
Retain(installs, unique_paths) ==
    IF installs = <<>> THEN <<>>
    ELSE IF Head(installs).path \in unique_paths
         THEN Retain(Tail(installs), unique_paths)
         ELSE <<Head(installs)>>
                  \o Retain(Tail(installs), unique_paths \cup {Head(installs).path})

\* what the three scanners pushed, before the duplicates are removed
ScannedIn(order) ==
    try_which_command \o NvmInstallationsIn(order) \o find_standard_installations

DiscoverIn(order) == Retain(ScannedIn(order), {})

discover_system_installations == DiscoverIn(dirOrder)

(***************************************************************************)
(* Ranking (claude_binary.rs:109-154)                                      *)
(***************************************************************************)
\* source.starts_with("nvm")
StartsWithNvm(source) ==
    source \in {"nvm-active"} \cup {NvmSource(n) : n \in NodeVersions}

\* mutant of source_preference: the numbers follow the order in which the
\* scanners run (ambient lookup, NVM_BIN, NVM directories, standard paths, PATH)
SourcePreferenceScannerOrder(installation) ==
    LET source == installation.source
    IN  CASE source \in {"which", "where"} -> 1
          [] source = "nvm-active" -> 2
          [] source # "nvm-active" /\ StartsWithNvm(source) -> 3
          [] source = "PATH" -> 13
          [] OTHER -> 4

source_preference(installation) ==
    LET source == installation.source
    IN  CASE source = "which" -> 1
          [] source = "homebrew" -> 2
          [] source = "system" -> 3
          [] source = "nvm-active" -> 4
          [] source # "nvm-active" /\ StartsWithNvm(source) -> 5
          [] source = "local-bin" -> 6
          [] source = "claude-local" -> 7
          [] source = "npm-global" -> 8
          [] source \in {"yarn", "yarn-global"} -> 9
          [] source = "bun" -> 10
          [] source = "node-modules" -> 11
          [] source = "home-bin" -> 12
          [] source = "PATH" -> 13
          [] OTHER -> 14

\* u8::cmp
CmpInt(x, y) == IF x < y THEN "Less" ELSE IF x > y THEN "Greater" ELSE "Equal"

\* mutant of SortCompare: the versions compared in ascending order
SortCompareAscending(a, b) ==
    CASE a.version.some /\ b.version.some ->
            (LET c == compare_versions(a.version.v, b.version.v)
             IN  IF c = "Equal"
                 THEN CmpInt(source_preference(a), source_preference(b))
                 ELSE c)
      [] a.version.some /\ ~b.version.some -> "Less"
      [] ~a.version.some /\ b.version.some -> "Greater"
      [] OTHER -> CmpInt(source_preference(a), source_preference(b))

\* the closure given to sort_by in discover_claude_installations
SortCompare(a, b) ==
    CASE a.version.some /\ b.version.some ->
            (LET c == compare_versions(b.version.v, a.version.v)
             IN  IF c = "Equal"
                 THEN CmpInt(source_preference(a), source_preference(b))
                 ELSE c)
      [] a.version.some /\ ~b.version.some -> "Less"
      [] ~a.version.some /\ b.version.some -> "Greater"
      [] OTHER -> CmpInt(source_preference(a), source_preference(b))

RECURSIVE InsertTail(_, _)
\* one step of the stable insertion sort slice::sort_by runs on short slices:
\* x moves left while it compares Less than its left neighbour
InsertTail(sorted, x) ==
    IF sorted # <<>> /\ SortCompare(x, sorted[Len(sorted)]) = "Less"
    THEN InsertTail(SubSeq(sorted, 1, Len(sorted) - 1), x) \o <<sorted[Len(sorted)]>>
    ELSE sorted \o <<x>>

RECURSIVE SortFrom(_, _)
SortFrom(sorted, rest) ==
    IF rest = <<>> THEN sorted
    ELSE SortFrom(InsertTail(sorted, Head(rest)), Tail(rest))

\* installations.sort_by(...)
SortBy(installs) == SortFrom(<<>>, installs)

discover_claude_installations == SortBy(discover_system_installations)

(***************************************************************************)
(* Selection policy (claude_binary.rs:769-798)                             *)
(***************************************************************************)
\* mutant of SelectCompare: a missing version is not looked at, the source
\* preference decides instead
SelectCompareBySource(a, b) ==
    CASE a.version.some /\ b.version.some -> compare_versions(a.version.v, b.version.v)
      [] OTHER -> CmpInt(source_preference(b), source_preference(a))

\* the closure given to max_by in select_best_installation
SelectCompare(a, b) ==
    CASE a.version.some /\ b.version.some -> compare_versions(a.version.v, b.version.v)
      [] a.version.some /\ ~b.version.some -> "Greater"
      [] ~a.version.some /\ b.version.some -> "Less"
      [] OTHER ->
            IF a.path = "claude" /\ b.path # "claude" THEN "Less"
            ELSE IF a.path # "claude" /\ b.path = "claude" THEN "Greater"
            ELSE "Equal"

RECURSIVE MaxByFrom(_, _)
\* Iterator::max_by is reduce(|x, y| match compare(&x, &y) { Greater => x, _ => y })
MaxByFrom(x, rest) ==
    IF rest = <<>> THEN x
    ELSE MaxByFrom(IF SelectCompare(x, Head(rest)) = "Greater" THEN x ELSE Head(rest),
                   Tail(rest))

NoInstallation == [some |-> FALSE, inst |-> ClaudeInstallation(NoPath, None, "", NoDistro)]

\* mutant of select_best_installation: the earlier behaviour the function's
\* comment describes, which discarded installations without a detected version
SelectBestVersionedOnly(installations) ==
    LET versioned == SelectSeq(installations, LAMBDA i : i.version.some)
    IN  IF versioned = <<>> THEN NoInstallation
        ELSE [some |-> TRUE, inst |-> MaxByFrom(Head(versioned), Tail(versioned))]

select_best_installation(installations) ==
    IF installations = <<>> THEN NoInstallation
    ELSE [some |-> TRUE, inst |-> MaxByFrom(Head(installations), Tail(installations))]

(***************************************************************************)
(* find_claude_binary (claude_binary.rs:45-105)                            *)
(***************************************************************************)
NotFoundMsg ==
    "Claude Code not found. Please ensure it's installed in one of these locations: PATH, /usr/local/bin, /opt/homebrew/bin, ~/.nvm/versions/node/*/bin, ~/.claude/local, ~/.local/bin"

NoValidMsg == "No valid Claude installation found"

Ok(path) == [status |-> "ok", path |-> path, msg |-> ""]
Err(msg) == [status |-> "err", path |-> NoPath, msg |-> msg]
NotCalled == [status |-> "none", path |-> NoPath, msg |-> ""]

\* the stored path returned although it is no regular file (mutant of
\* StoredPathUsable)
StoredPathUnchecked(st) == st.db = "open" /\ st.binaryPath # NoPath

\* the stored claude_binary_path is returned when the database opens, holds the
\* row and the path is a regular file
StoredPathUsable(st) ==
    st.db = "open" /\ st.binaryPath # NoPath /\ st.isFile

(***************************************************************************)
(* Operations                                                              *)
(***************************************************************************)
FindClaudeBinary ==
    /\ found.status = "none"
    /\ \E st \in StoreStates :
       /\ store' = st
       /\ IF StoredPathUsable(st)
          THEN /\ found' = Ok(st.binaryPath)
               /\ UNCHANGED <<catalog, best>>
          ELSE LET installations == discover_system_installations
                   chosen == select_best_installation(installations)
               IN  /\ catalog' = [done |-> TRUE, list |-> installations]
                   /\ IF installations = <<>>
                      THEN /\ found' = Err(NotFoundMsg)
                           /\ UNCHANGED best
                      ELSE /\ best' = chosen
                           /\ found' = IF chosen.some THEN Ok(chosen.inst.path)
                                       ELSE Err(NoValidMsg)
    /\ UNCHANGED <<listing, envVars, verVars>>
    /\ UNCHANGED <<extractVars, pathVars, wslCmdVars, cmdEnvVars, shellVars, passVars>>
    /\ UNCHANGED <<parseVars, configVars>>

DiscoverClaudeInstallations ==
    /\ ~listing.done
    /\ catalog' = [done |-> TRUE, list |-> discover_system_installations]
    /\ listing' = [done |-> TRUE, list |-> discover_claude_installations]
    /\ UNCHANGED <<store, best, found, envVars, verVars>>
    /\ UNCHANGED <<extractVars, pathVars, wslCmdVars, cmdEnvVars, shellVars, passVars>>
    /\ UNCHANGED <<parseVars, configVars>>

(***************************************************************************)
(* Initial states                                                          *)
(***************************************************************************)
VerIdle == va = <<>> /\ vb = <<>> /\ ord = "none"

OutIdle ==
    /\ catalog = [done |-> FALSE, list |-> <<>>]
    /\ listing = [done |-> FALSE, list |-> <<>>]
    /\ best = NoInstallation
    /\ found = NotCalled
    /\ store = [db |-> "missing", binaryPath |-> NoPath, isFile |-> FALSE,
                preference |-> NoPath]

WslCount == Cardinality({i \in 1..Len(WslDistros) : wsl[WslDistros[i]].found})

\* a host: the environment does not change during a discovery pass.  Settings
\* of the environment that no scanner can tell apart are drawn once: NVM_BIN
\* and `which` name files that exist (or one stale path), and the read_dir
\* order varies only when both version directories hold a binary.
HostInit ==
    /\ platform \in {"unix", "windows"}
    /\ fs \in [Universe(platform) -> FileStates]
    /\ wsl \in [{WslDistros[i] : i \in 1..Len(WslDistros)} -> WslStates]
    /\ platform = "unix" => \A d \in DOMAIN wsl : ~wsl[d].found
    /\ whichOut \in {NoPath, StalePath} \cup ExistingFiles
    /\ nvmBin \in {"Unset"} \cup (IF platform = "unix" THEN ExistingNodes ELSE {})
    /\ dirOrder \in (IF ExistingNodes = NodeVersions THEN DirOrders
                     ELSE {<<"v18", "v20">>})
    /\ pathProbe \in {[ok |-> FALSE, version |-> None]}
                        \cup {[ok |-> TRUE, version |-> o] : o \in ProbedVersions}
    /\ Cardinality(ExistingFiles) + WslCount + (IF pathProbe.ok THEN 1 ELSE 0)
          <= MaxFiles

HostIdle ==
    /\ platform = "unix"
    /\ fs = [p \in Universe("unix") |-> Absent]
    /\ wsl = [d \in {WslDistros[i] : i \in 1..Len(WslDistros)} |-> WslNotFound]
    /\ whichOut = NoPath
    /\ nvmBin = "Unset"
    /\ dirOrder = <<"v18", "v20">>
    /\ pathProbe = [ok |-> FALSE, version |-> None]

\* the harness variables before the call they belong to
ExtractIdle == outText = <<>> /\ extracted = [done |-> FALSE, res |-> None]

PathIdle == winPath = <<>> /\ wslPath = [done |-> FALSE, path |-> <<>>]

WslCmdIdle ==
    /\ cmdArgs = [ctx |-> [distro |-> NoDistro, claude_path |-> <<>>,
                           working_dir |-> <<>>],
                  args |-> <<>>]
    /\ wslCmd = [done |-> FALSE]

CmdEnvIdle ==
    /\ parentEnv = [n \in {} |-> <<>>]
    /\ program = NoPath
    /\ childCmd = [done |-> FALSE]

ShellIdle == shellHost = [listed |-> FALSE] /\ shells = [done |-> FALSE]

PassIdle == passIdx = 0 /\ proc = "none"

ParseIdle == shellText = <<>> /\ parsed = [done |-> FALSE]

ConfigIdle == settings = <<>> /\ calls = <<>>

(***************************************************************************)
(* Specification of discovery and selection                                *)
(***************************************************************************)
Init ==
    /\ HostInit /\ OutIdle /\ VerIdle
    /\ ExtractIdle /\ PathIdle /\ WslCmdIdle /\ CmdEnvIdle /\ ShellIdle /\ PassIdle
    /\ ParseIdle /\ ConfigIdle

Next == FindClaudeBinary \/ DiscoverClaudeInstallations

Spec == Init /\ [][Next]_vars

(***************************************************************************)
(* compare_versions harness: one call on a pair of version strings         *)
(***************************************************************************)
VerInit ==
    /\ va \in VersionInputs
    /\ vb \in VersionInputs
    /\ ord = "none"
    /\ HostIdle
    /\ OutIdle
    /\ ExtractIdle /\ PathIdle /\ WslCmdIdle /\ CmdEnvIdle /\ ShellIdle /\ PassIdle
    /\ ParseIdle /\ ConfigIdle

\* one call compare_versions(va, vb)
CompareVersions ==
    /\ ord = "none"
    /\ ord' = compare_versions(va, vb)
    /\ UNCHANGED <<va, vb, envVars, outVars>>
    /\ UNCHANGED <<extractVars, pathVars, wslCmdVars, cmdEnvVars, shellVars, passVars>>
    /\ UNCHANGED <<parseVars, configVars>>

VerNext == CompareVersions

SpecVer == VerInit /\ [][VerNext]_vars

(***************************************************************************)
(* extract_version_from_output (claude_binary.rs:739-766)                  *)
(* regex  (\d+\.\d+\.\d+(?:-[a-zA-Z0-9.-]+)?(?:\+[a-zA-Z0-9.-]+)?)         *)
(* The text is scanned as the regex crate does: the leftmost position at   *)
(* which the pattern matches, every repetition and option greedy.  The     *)
(* texts of the harness are ASCII, where \d is [0-9].                      *)
(***************************************************************************)
AsciiLetters ==
    {"a", "b", "c", "d", "e", "f", "g", "h", "i", "j", "k", "l", "m", "n", "o",
     "p", "q", "r", "s", "t", "u", "v", "w", "x", "y", "z",
     "A", "B", "C", "D", "E", "F", "G", "H", "I", "J", "K", "L", "M", "N", "O",
     "P", "Q", "R", "S", "T", "U", "V", "W", "X", "Y", "Z"}

\* \d
RegexDigit(c) == c \in AsciiDigits

\* [a-zA-Z0-9.-]
SuffixChar(c) == c \in AsciiLetters \cup AsciiDigits \cup {".", "-"}

\* \d+ from position i: the position of the last digit of the run, i - 1 when
\* s[i] is no digit
RECURSIVE DigitsEnd(_, _)
DigitsEnd(s, i) ==
    IF i <= Len(s) /\ RegexDigit(s[i]) THEN DigitsEnd(s, i + 1) ELSE i - 1

\* [a-zA-Z0-9.-]+ from position i, in the same way
RECURSIVE SuffixEnd(_, _)
SuffixEnd(s, i) ==
    IF i <= Len(s) /\ SuffixChar(s[i]) THEN SuffixEnd(s, i + 1) ELSE i - 1

\* \d+\.\d+\.\d+ from position i: the position where the match ends, 0 when
\* the pattern does not match at i
MatchCoreAt(s, i) ==
    LET a == DigitsEnd(s, i)
    IN  IF a < i \/ a + 1 > Len(s) \/ s[a + 1] # "." THEN 0
        ELSE LET b == DigitsEnd(s, a + 2)
             IN  IF b < a + 2 \/ b + 1 > Len(s) \/ s[b + 1] # "." THEN 0
                 ELSE LET c == DigitsEnd(s, b + 2)
                      IN  IF c < b + 2 THEN 0 ELSE c

\* the suffix group dropped (mutant of OptionalGroup)
OptionalGroupSkipped(s, e, lead) == e

\* (?:<lead>[a-zA-Z0-9.-]+)? after a match that ends at e: the new end
OptionalGroup(s, e, lead) ==
    IF e + 1 <= Len(s) /\ s[e + 1] = lead /\ SuffixEnd(s, e + 2) >= e + 2
    THEN SuffixEnd(s, e + 2)
    ELSE e

\* the whole pattern from position i: the end of the match, 0 for no match
MatchAt(s, i) ==
    LET c == MatchCoreAt(s, i)
    IN  IF c = 0 THEN 0
        ELSE OptionalGroup(s, OptionalGroup(s, c, "-"), "+")

\* regex.captures: the first position from i on at which the pattern matches,
\* 0 when there is none
RECURSIVE FirstMatchFrom(_, _)
FirstMatchFrom(s, i) ==
    IF i > Len(s) THEN 0
    ELSE IF MatchAt(s, i) # 0 THEN i
    ELSE FirstMatchFrom(s, i + 1)

\* captures.get(1) as a String; the regex is a constant that compiles, so the
\* early return of Regex::new(..).ok()? is never taken
extract_version_from_output(stdout) ==
    LET i == FirstMatchFrom(stdout, 1)
    IN  IF i = 0 THEN None ELSE Some(SubSeq(stdout, i, MatchAt(stdout, i)))

(***************************************************************************)
(* extract_version_from_output harness: one call on a probe output         *)
(***************************************************************************)
OutAlphabet == {"1", "2", ".", "-"}

O_claude_1_0_41 ==
    <<"c", "l", "a", "u", "d", "e", " ", "1", ".", "0", ".", "4", "1", "\n">>
O_1_2_3_beta_2_build ==
    <<"v", "1", ".", "2", ".", "3", "-", "b", ".", "2", "+", "g", "7", " ", "x">>
O_1_2_3_build == <<"1", ".", "2", ".", "3", "+", "g", "7">>
O_1_2_3_plus == <<"1", ".", "2", ".", "3", "+", "+">>
O_two_versions ==
    <<"1", ".", "2", " ", "1", ".", "2", ".", "3", " ", "2", ".", "2", ".", "2">>
O_no_version == <<"c", "l", "a", "u", "d", "e", " ", "1", ".", "0">>

SampleOutputs ==
    {O_claude_1_0_41, O_1_2_3_beta_2_build, O_1_2_3_build, O_1_2_3_plus,
     O_two_versions, O_no_version}

OutputInputs == UNION {[1..k -> OutAlphabet] : k \in 0..MaxOutLen} \cup SampleOutputs

ExtractInit ==
    /\ outText \in OutputInputs
    /\ extracted = [done |-> FALSE, res |-> None]
    /\ HostIdle /\ OutIdle /\ VerIdle
    /\ PathIdle /\ WslCmdIdle /\ CmdEnvIdle /\ ShellIdle /\ PassIdle
    /\ ParseIdle /\ ConfigIdle

\* one call extract_version_from_output(outText)
ExtractVersion ==
    /\ ~extracted.done
    /\ extracted' = [done |-> TRUE, res |-> extract_version_from_output(outText)]
    /\ UNCHANGED <<outText, verVars, envVars, outVars>>
    /\ UNCHANGED <<pathVars, wslCmdVars, cmdEnvVars, shellVars, passVars>>
    /\ UNCHANGED <<parseVars, configVars>>

ExtractNext == ExtractVersion

SpecExtract == ExtractInit /\ [][ExtractNext]_vars

(***************************************************************************)
(* String helpers of shell_environment.rs                                  *)
(***************************************************************************)
\* str::replace(c, r): every character c of s replaced by the string r
RECURSIVE Replace(_, _, _)
Replace(s, c, r) ==
    IF s = <<>> THEN <<>>
    ELSE (IF Head(s) = c THEN r ELSE <<Head(s)>>) \o Replace(Tail(s), c, r)

\* a prefix test that looks at the first character only (mutant of
\* StripPrefix)
StripPrefixFirstChar(s, pre) ==
    IF s # <<>> /\ s[1] = pre[1] THEN Some(Tail(s)) ELSE None

\* str::strip_prefix(pre): Some(rest) when s starts with pre
StripPrefix(s, pre) ==
    IF Len(s) >= Len(pre) /\ SubSeq(s, 1, Len(pre)) = pre
    THEN Some(SubSeq(s, Len(pre) + 1, Len(s)))
    ELSE None

\* str::find(c): the position of the first c in s, 0 for None
RECURSIVE FindFrom(_, _, _)
FindFrom(s, c, i) ==
    IF i > Len(s) THEN 0
    ELSE IF s[i] = c THEN i
    ELSE FindFrom(s, c, i + 1)

Find(s, c) == FindFrom(s, c, 1)

UpperLetters ==
    <<"A", "B", "C", "D", "E", "F", "G", "H", "I", "J", "K", "L", "M", "N", "O",
      "P", "Q", "R", "S", "T", "U", "V", "W", "X", "Y", "Z">>
LowerLetters ==
    <<"a", "b", "c", "d", "e", "f", "g", "h", "i", "j", "k", "l", "m", "n", "o",
      "p", "q", "r", "s", "t", "u", "v", "w", "x", "y", "z">>

\* the drive letter kept as written (mutant of ToLower)
ToLowerKept(c) == c

\* char::to_lowercase().next() on the characters of the model
ToLower(c) ==
    IF \E i \in 1..Len(UpperLetters) : UpperLetters[i] = c
    THEN LowerLetters[CHOOSE i \in 1..Len(UpperLetters) : UpperLetters[i] = c]
    ELSE c

(***************************************************************************)
(* windows_to_wsl_path (shell_environment.rs:277-317)                      *)
(***************************************************************************)
WslLocalhostPrefix ==
    <<"/", "/", "w", "s", "l", ".", "l", "o", "c", "a", "l", "h", "o", "s", "t",
      "/">>
WslDollarPrefix == <<"/", "/", "w", "s", "l", "$", "/">>
UncPrefix == <<"/", "/">>
MntPrefix == <<"/", "m", "n", "t", "/">>

\* the body shared by the two WSL UNC branches: the distribution name, the
\* first component of rest, is skipped
SkipDistro(rest) ==
    IF Find(rest, "/") # 0
    THEN SubSeq(rest, Find(rest, "/"), Len(rest))
    ELSE <<"/">> \o rest

\* the cfg(windows) function (lines 278-312)
WindowsToWslPathOnWindows(windows_path) ==
    LET path == Replace(windows_path, "\\", <<"/">>)
    IN  IF StripPrefix(path, WslLocalhostPrefix).some
        THEN SkipDistro(StripPrefix(path, WslLocalhostPrefix).v)
        ELSE IF StripPrefix(path, WslDollarPrefix).some
        THEN SkipDistro(StripPrefix(path, WslDollarPrefix).v)
        ELSE IF StripPrefix(path, UncPrefix).some
        THEN MntPrefix \o StripPrefix(path, UncPrefix).v
        ELSE IF Len(path) >= 2 /\ path[2] = ":"
        THEN MntPrefix \o <<ToLower(path[1])>> \o SubSeq(path, 3, Len(path))
        ELSE path

\* the function of the build for plat; cfg(not(windows)) is path.to_string()
windows_to_wsl_path(plat, windows_path) ==
    IF plat = "windows" THEN WindowsToWslPathOnWindows(windows_path)
    ELSE windows_path

(***************************************************************************)
(* windows_to_wsl_path harness: one call on a path                         *)
(***************************************************************************)
PathAlphabet == {"C", "d", ":", "\\", "/"}

PathsUpTo(n) == UNION {[1..k -> PathAlphabet] : k \in 0..n}

\* the heads of WSL UNC paths, written with backslashes and with slashes
WslUncHeads ==
    {WslLocalhostPrefix, WslDollarPrefix,
     Replace(WslLocalhostPrefix, "/", <<"\\">>),
     Replace(WslDollarPrefix, "/", <<"\\">>)}

\* the paths of the unit tests (lines 415-439)
P_drive == <<"C", ":", "\\", "U", "s", "e", "r", "s", "\\", "t", "e", "s", "t",
             "\\", "p", "r", "o", "j", "e", "c", "t">>
P_linux == <<"/", "h", "o", "m", "e", "/", "j", "o", "r", "d", "a", "n", "/",
             "p", "r", "o", "j", "e", "c", "t">>
P_wsl_unc ==
    Replace(WslLocalhostPrefix, "/", <<"\\">>)
       \o <<"U", "b", "u", "n", "t", "u", "\\", "h", "o", "m", "e", "\\", "j",
            "o", "r", "d", "a", "n", "\\", "p", "r", "o", "j", "e", "c", "t">>
P_wsl_distro_only ==
    Replace(WslLocalhostPrefix, "/", <<"\\">>) \o <<"U", "b", "u", "n", "t", "u">>

PathInputs ==
    PathsUpTo(MaxPathLen)
       \cup {h \o p : h \in WslUncHeads, p \in PathsUpTo(MaxPathLen)}
       \cup {P_drive, P_linux, P_wsl_unc, P_wsl_distro_only}

\* every variable of the host but the build
HostRestIdle ==
    /\ fs = [p \in Universe("unix") |-> Absent]
    /\ wsl = [d \in {WslDistros[i] : i \in 1..Len(WslDistros)} |-> WslNotFound]
    /\ whichOut = NoPath
    /\ nvmBin = "Unset"
    /\ dirOrder = <<"v18", "v20">>
    /\ pathProbe = [ok |-> FALSE, version |-> None]

PathInit ==
    /\ platform \in {"unix", "windows"}
    /\ winPath \in PathInputs
    /\ wslPath = [done |-> FALSE, path |-> <<>>]
    /\ HostRestIdle /\ OutIdle /\ VerIdle
    /\ ExtractIdle /\ WslCmdIdle /\ CmdEnvIdle /\ ShellIdle /\ PassIdle
    /\ ParseIdle /\ ConfigIdle

\* one call windows_to_wsl_path(winPath)
WindowsToWslPath ==
    /\ ~wslPath.done
    /\ wslPath' = [done |-> TRUE, path |-> windows_to_wsl_path(platform, winPath)]
    /\ UNCHANGED <<winPath, verVars, envVars, outVars>>
    /\ UNCHANGED <<extractVars, wslCmdVars, cmdEnvVars, shellVars, passVars>>
    /\ UNCHANGED <<parseVars, configVars>>

PathNext == WindowsToWslPath

SpecPath == PathInit /\ [][PathNext]_vars

(***************************************************************************)
(* create_wsl_command (shell_environment.rs:319-379)                       *)
(***************************************************************************)
\* the backtick character (one character, as "sup2" above)
Backtick == "backtick"

\* the four replacements with the backslash replaced last (mutant of
\* EscapeArg)
EscapeArgBackslashLast(arg) ==
    Replace(Replace(Replace(Replace(arg, "\"", <<"\\", "\"">>),
                            "$", <<"\\", "$">>),
                    Backtick, <<"\\", Backtick>>),
            "\\", <<"\\", "\\">>)

\* arg.replace('\\', "\\\\").replace('"', "\\\"").replace('$', "\\$")
\*    .replace(<backtick>, "\\<backtick>")
EscapeArg(arg) ==
    Replace(Replace(Replace(Replace(arg, "\\", <<"\\", "\\">>),
                            "\"", <<"\\", "\"">>),
                    "$", <<"\\", "$">>),
            Backtick, <<"\\", Backtick>>)

\* format!("\"{}\"", escaped)
QuoteArg(arg) == <<"\"">> \o EscapeArg(arg) \o <<"\"">>

\* .collect::<Vec<_>>().join(" ") over the quoted arguments
RECURSIVE JoinQuoted(_)
JoinQuoted(args) ==
    IF args = <<>> THEN <<>>
    ELSE IF Len(args) = 1 THEN QuoteArg(args[1])
    ELSE QuoteArg(args[1]) \o <<" ">> \o JoinQuoted(Tail(args))

\* format!("cd '{}' && {} {}", wsl_working_dir.replace('\'', "'\\''"),
\*         claude_path, claude_args)
BashCommand(wsl_working_dir, claude_path, args) ==
    <<"c", "d", " ", "'">>
       \o Replace(wsl_working_dir, "'", <<"'", "\\", "'", "'">>)
       \o <<"'", " ", "&", "&", " ">>
       \o claude_path \o <<" ">> \o JoinQuoted(args)

\* the Command returned: on the cfg(windows) build `wsl [-d distro] bash -lc
\* <bash_command>`, on the other builds claude_path with the arguments and
\* the working directory as given
create_wsl_command(plat, distro, claude_path, args, working_dir) ==
    IF plat = "windows"
    THEN [done |-> TRUE, program |-> "wsl", distro |-> distro,
          shell |-> <<"bash", "-lc">>,
          bashCommand |-> BashCommand(windows_to_wsl_path(plat, working_dir),
                                      claude_path, args),
          args |-> <<>>, cwd |-> <<>>]
    ELSE [done |-> TRUE, program |-> claude_path, distro |-> NoDistro,
          shell |-> <<>>, bashCommand |-> <<>>,
          args |-> args, cwd |-> working_dir]

(***************************************************************************)
(* create_wsl_command harness: one call on an argument list                *)
(***************************************************************************)
ArgAlphabet == {"a", " ", "\\", "\"", "$"}

ArgsUpTo(n) == UNION {[1..k -> ArgAlphabet] : k \in 0..n}

A_backtick == <<Backtick, "a", "\\", Backtick>>
A_dollar_quote == <<"$", "(", "a", ")", "\"", "'">>

ArgStrings == ArgsUpTo(MaxArgLen) \cup {A_backtick, A_dollar_quote}

\* the argument lists: none, one or two arguments
ArgLists ==
    {<<>>} \cup {<<a>> : a \in ArgStrings}
           \cup {<<a, b>> : a \in ArgStrings, b \in ArgStrings}

ClaudeName == <<"c", "l", "a", "u", "d", "e">>
P_quote == <<"C", ":", "\\", "i", "t", "'", "s">>

\* distribution, claude path and working directory of the call
CallContexts ==
    {[distro |-> NoDistro, claude_path |-> ClaudeName, working_dir |-> P_drive],
     [distro |-> "Ubuntu", claude_path |-> ClaudeName, working_dir |-> P_quote]}

WslCmdInit ==
    /\ platform \in {"unix", "windows"}
    /\ cmdArgs \in [ctx : CallContexts,
                    args : IF platform = "windows" THEN ArgLists
                           ELSE {<<>>, <<A_backtick, A_dollar_quote>>}]
    /\ wslCmd = [done |-> FALSE]
    /\ HostRestIdle /\ OutIdle /\ VerIdle
    /\ ExtractIdle /\ PathIdle /\ CmdEnvIdle /\ ShellIdle /\ PassIdle
    /\ ParseIdle /\ ConfigIdle

\* one call create_wsl_command(distro, claude_path, args, working_dir)
CreateWslCommand ==
    /\ ~wslCmd.done
    /\ wslCmd' = create_wsl_command(platform, cmdArgs.ctx.distro,
                                    cmdArgs.ctx.claude_path, cmdArgs.args,
                                    cmdArgs.ctx.working_dir)
    /\ UNCHANGED <<cmdArgs, verVars, envVars, outVars>>
    /\ UNCHANGED <<extractVars, pathVars, cmdEnvVars, shellVars, passVars>>
    /\ UNCHANGED <<parseVars, configVars>>

WslCmdNext == CreateWslCommand

SpecWslCmd == WslCmdInit /\ [][WslCmdNext]_vars

(***************************************************************************)
(* create_command_with_env (claude_binary.rs:839-914)                      *)
(* An environment is a function from variable names to values; a value is  *)
(* the sequence of its ':'-separated entries.                              *)
(***************************************************************************)
\* the variable names of the modelled process environments
EnvNames ==
    {"PATH", "HOME", "LC_CTYPE", "NVM_BIN", "HTTP_PROXY", "http_proxy",
     "SECRET_TOKEN"}

\* key.starts_with("LC_") on the names of the model
StartsWithLC(key) == key \in {"LC_ALL", "LC_CTYPE"}

\* the condition of the loop over std::env::vars() (lines 849-864)
AllowListed(key) ==
    \/ key \in {"PATH", "HOME", "USER", "SHELL", "LANG", "LC_ALL"}
    \/ StartsWithLC(key)
    \/ key \in {"NODE_PATH", "NVM_DIR", "NVM_BIN", "HOMEBREW_PREFIX",
                "HOMEBREW_CELLAR"}
    \/ key \in {"HTTP_PROXY", "HTTPS_PROXY", "NO_PROXY", "ALL_PROXY"}

\* the programs of the harness and Path::new(program).parent()
Programs ==
    {"claude", "/usr/local/bin/claude", "/opt/homebrew/bin/claude",
     NvmClaudePath("unix", "v18")}

ParentDir(prog) ==
    CASE prog = "/usr/local/bin/claude" -> "/usr/local/bin"
      [] prog = "/opt/homebrew/bin/claude" -> "/opt/homebrew/bin"
      [] prog = NvmClaudePath("unix", "v18") -> "/home/u/.nvm/versions/node/v18/bin"
      [] OTHER -> ""

\* program.contains("/.nvm/versions/node/")
InNvmDirectory(prog) == prog = NvmClaudePath("unix", "v18")

\* program.contains("/homebrew/") || program.contains("/opt/homebrew/")
InHomebrewDirectory(prog) == prog = "/opt/homebrew/bin/claude"

\* std::env::var("PATH").unwrap_or_default(), as its entries
CurrentPath(env) == IF "PATH" \in DOMAIN env THEN env["PATH"] ELSE <<"">>

\* current_path.contains(dir), on paths whose entries do not contain one
\* another
PathContains(entries, dir) == \E i \in 1..Len(entries) : entries[i] = dir

\* cmd.env(key, value): the explicit settings of the Command with key set
WithEnv(envs, key, value) ==
    [n \in DOMAIN envs \cup {key} |-> IF n = key THEN value ELSE envs[n]]

\* the explicit settings when the function returns: the allow-listed
\* variables of the parent, then PATH with the directory of an NVM or
\* Homebrew program put first when PATH does not hold it
ExplicitEnv(prog, env) ==
    LET passed == [n \in {k \in DOMAIN env : AllowListed(k)} |-> env[n]]
        extended ==
            IF (InNvmDirectory(prog) \/ InHomebrewDirectory(prog))
               /\ ~PathContains(CurrentPath(env), ParentDir(prog))
            THEN WithEnv(passed, "PATH", <<ParentDir(prog)>> \o CurrentPath(env))
            ELSE passed
    IN  extended

\* the environment a std::process::Command gives its child: Command::new
\* (line 842) inherits the environment of the parent, cmd.env adds to it or
\* overrides it, and the function never calls env_clear or env_remove
SpawnEnvironment(envs, env) ==
    [n \in DOMAIN env \cup DOMAIN envs |->
        IF n \in DOMAIN envs THEN envs[n] ELSE env[n]]

create_command_with_env(prog, env) ==
    [done |-> TRUE, program |-> prog, envs |-> ExplicitEnv(prog, env),
     childEnv |-> SpawnEnvironment(ExplicitEnv(prog, env), env)]

(***************************************************************************)
(* create_command_with_env harness: one call in a parent environment       *)
(***************************************************************************)
EnvValue(n) ==
    IF n = "PATH"
    THEN {<<"/usr/bin">>, <<"/usr/bin", "/home/u/.nvm/versions/node/v18/bin">>}
    ELSE {<<"v">>}

ParentEnvs ==
    UNION {{e \in [names -> {<<"v">>} \cup EnvValue("PATH")] :
               \A n \in names : e[n] \in EnvValue(n)} : names \in SUBSET EnvNames}

CmdEnvInit ==
    /\ parentEnv \in ParentEnvs
    /\ program \in Programs
    /\ childCmd = [done |-> FALSE]
    /\ HostIdle /\ OutIdle /\ VerIdle
    /\ ExtractIdle /\ PathIdle /\ WslCmdIdle /\ ShellIdle /\ PassIdle
    /\ ParseIdle /\ ConfigIdle

\* one call create_command_with_env(program)
CreateCommandWithEnv ==
    /\ ~childCmd.done
    /\ childCmd' = create_command_with_env(program, parentEnv)
    /\ UNCHANGED <<parentEnv, program, verVars, envVars, outVars>>
    /\ UNCHANGED <<extractVars, pathVars, wslCmdVars, shellVars, passVars>>
    /\ UNCHANGED <<parseVars, configVars>>

CmdEnvNext == CreateCommandWithEnv

SpecCmdEnv == CmdEnvInit /\ [][CmdEnvNext]_vars

(***************************************************************************)
(* detect_available_shells (shell_environment.rs:88-231)                   *)
(* The decoded output of `wsl --list --verbose` is a sequence of lines; a  *)
(* line is a sequence of tokens: "*", " " (white space) and letters or     *)
(* digits that stand together as a piece of a word.                        *)
(***************************************************************************)
\* str::trim_start on blanks
RECURSIVE TrimStart(_)
TrimStart(line) ==
    IF line # <<>> /\ Head(line) = " " THEN TrimStart(Tail(line)) ELSE line

\* str::trim
Trim(line) == Reverse(TrimStart(Reverse(TrimStart(line))))

\* str::trim_start_matches('*')
RECURSIVE TrimStartStars(_)
TrimStartStars(line) ==
    IF line # <<>> /\ Head(line) = "*" THEN TrimStartStars(Tail(line)) ELSE line

\* str::split_whitespace: the words of the line, each the tokens that stand
\* together; cur is the word being read
RECURSIVE SplitWhitespace(_, _)
SplitWhitespace(line, cur) ==
    IF line = <<>> THEN (IF cur = <<>> THEN <<>> ELSE <<cur>>)
    ELSE IF Head(line) = " "
    THEN (IF cur = <<>> THEN <<>> ELSE <<cur>>) \o SplitWhitespace(Tail(line), <<>>)
    ELSE SplitWhitespace(Tail(line), Append(cur, Head(line)))

\* parts.get(2).and_then(|v| v.parse().ok()): the third word as a u8
WslVersionOf(parts) ==
    IF Len(parts) >= 3 /\ parts[3] \in {<<"1">>, <<"2">>} THEN parts[3][1]
    ELSE "None"

\* every line marked as the default (mutant of IsDefaultLine)
IsDefaultLineAlways(line) == TRUE

\* line.starts_with('*') on the trimmed line
IsDefaultLine(line) == line # <<>> /\ Head(line) = "*"

\* the body of the loop for one line: the distribution pushed, if any
ParseWslLine(raw) ==
    LET line == Trim(raw)
        parts == SplitWhitespace(TrimStartStars(line), <<>>)
    IN  IF line = <<>> THEN <<>>
        ELSE IF parts = <<>> THEN <<>>
        ELSE IF parts[1] = <<"NAME">> THEN <<>>
        ELSE <<[name |-> parts[1], is_default |-> IsDefaultLine(line),
                version |-> WslVersionOf(parts)]>>

RECURSIVE ParseWslLines(_)
ParseWslLines(lines) ==
    IF lines = <<>> THEN <<>>
    ELSE ParseWslLine(Head(lines)) \o ParseWslLines(Tail(lines))

\* detect_wsl_distributions: the lines after the first one are parsed when
\* the command ran and exited with zero
detect_wsl_distributions(plat, listed) ==
    IF plat = "windows" /\ listed.status = "ok" /\ listed.lines # <<>>
    THEN ParseWslLines(Tail(listed.lines))
    ELSE <<>>

GitBashPaths ==
    <<"C:\\Program Files\\Git\\bin\\bash.exe",
      "C:\\Program Files (x86)\\Git\\bin\\bash.exe">>

\* first lines `where bash.exe` may print
WhereGitBash == "C:\\Tools\\Git\\usr\\bin\\bash.exe"
WhereOtherBash == "C:\\Windows\\System32\\bash.exe"

\* p.to_lowercase().contains("git")
ContainsGit(p) == p = WhereGitBash

\* detect_git_bash: the first common location that exists, else the first
\* line of `where bash.exe` when it names git
detect_git_bash(plat, git) ==
    IF plat # "windows" THEN NoPath
    ELSE IF GitBashPaths[1] \in git.files THEN GitBashPaths[1]
    ELSE IF GitBashPaths[2] \in git.files THEN GitBashPaths[2]
    ELSE IF git.whereOut # NoPath /\ ContainsGit(git.whereOut) THEN git.whereOut
    ELSE NoPath

detect_available_shells(plat, host) ==
    [done |-> TRUE, native |-> TRUE,
     wsl_distributions |-> detect_wsl_distributions(plat, host.wslList),
     git_bash_path |-> detect_git_bash(plat, host.git)]

(***************************************************************************)
(* detect_available_shells harness: one call on a host                     *)
(***************************************************************************)
L_header == <<" ", " ", "NAME", " ", "STATE", " ", "VERSION">>
L_default_ubuntu == <<"*", " ", "Ubuntu", " ", "Running", " ", "2">>
L_default_debian == <<"*", " ", "Debian", " ", "Stopped", " ", "1">>
L_debian == <<" ", " ", "Debian", " ", "Stopped", " ", "1">>
L_blank == <<" ">>
L_star == <<" ", "*">>
L_star_joined == <<"*", "*", "Ubuntu", " ", "Running", " ", "x">>

ListingLines ==
    {L_header, L_default_ubuntu, L_default_debian, L_debian, L_blank, L_star,
     L_star_joined}

\* what `wsl --list --verbose` gives: no spawn, a non-zero exit, or a text
WslListings ==
    {[status |-> "error", lines |-> <<>>], [status |-> "failed", lines |-> <<>>]}
       \cup {[status |-> "ok", lines |-> l] :
                l \in UNION {[1..k -> ListingLines] : k \in 0..MaxLines}}

\* the Git Bash files that exist and the first line of `where bash.exe`
GitHosts ==
    {[files |-> {}, whereOut |-> w] : w \in {NoPath, WhereGitBash, WhereOtherBash}}
       \cup {[files |-> f, whereOut |-> NoPath] :
                f \in SUBSET {GitBashPaths[1], GitBashPaths[2]} \ {{}}}

ShellInit ==
    /\ platform \in {"unix", "windows"}
    /\ shellHost \in
          IF platform = "windows"
          THEN [listed : {TRUE}, wslList : WslListings, git : GitHosts]
          ELSE [listed : {TRUE},
                wslList : {[status |-> "error", lines |-> <<>>]},
                git : {[files |-> {}, whereOut |-> NoPath]}]
    /\ shells = [done |-> FALSE]
    /\ HostRestIdle /\ OutIdle /\ VerIdle
    /\ ExtractIdle /\ PathIdle /\ WslCmdIdle /\ CmdEnvIdle /\ PassIdle
    /\ ParseIdle /\ ConfigIdle

\* one call detect_available_shells()
DetectAvailableShells ==
    /\ ~shells.done
    /\ shells' = detect_available_shells(platform, shellHost)
    /\ UNCHANGED <<shellHost, verVars, envVars, outVars>>
    /\ UNCHANGED <<extractVars, pathVars, wslCmdVars, cmdEnvVars, passVars>>
    /\ UNCHANGED <<parseVars, configVars>>

ShellNext == DetectAvailableShells

SpecShells == ShellInit /\ [][ShellNext]_vars

(***************************************************************************)
(* One discovery pass, subprocess by subprocess                            *)
(* Every scanner runs its subprocesses with Command::output(), which       *)
(* returns when the child has exited; no call site sets a timeout.         *)
(***************************************************************************)
\* the paths of the installations a scanner pushed: one --version probe each
RECURSIVE ProbesOf(_)
ProbesOf(installs) ==
    IF installs = <<>> THEN <<>>
    ELSE <<[cmd |-> "--version", of |-> Head(installs).path]>>
            \o ProbesOf(Tail(installs))

\* the WSL commands of find_wsl_installations: the listing, then per
\* distribution the search and, when claude is found, its version probe
RECURSIVE WslCallsOf(_)
WslCallsOf(distros) ==
    IF distros = <<>> THEN <<>>
    ELSE <<[cmd |-> "wsl which", of |-> Head(distros)]>>
            \o (IF wsl[Head(distros)].found
                THEN <<[cmd |-> "wsl --version", of |-> Head(distros)]>>
                ELSE <<>>)
            \o WslCallsOf(Tail(distros))

\* the subprocesses discover_system_installations runs on this host, in order
PassCalls ==
    <<[cmd |-> IF platform = "unix" THEN "which" ELSE "where", of |-> "claude"]>>
       \o ProbesOf(try_which_command)
       \o ProbesOf(find_nvm_installations)
       \o ProbesOf(CheckPaths(StandardPaths(platform)))
       \o <<[cmd |-> "--version", of |-> BareName(platform)]>>
       \o (IF platform = "windows"
           THEN <<[cmd |-> "wsl -l -q", of |-> "wsl"]>> \o WslCallsOf(WslDistros)
           ELSE <<>>)

\* Command::output() spawns the next subprocess of the pass
SpawnSubprocess ==
    /\ proc = "none"
    /\ passIdx < Len(PassCalls)
    /\ proc' = "running"
    /\ UNCHANGED <<passIdx, verVars, envVars, outVars>>
    /\ UNCHANGED <<extractVars, pathVars, wslCmdVars, cmdEnvVars, shellVars>>
    /\ UNCHANGED <<parseVars, configVars>>

\* the subprocess exits
SubprocessExits ==
    /\ proc = "running"
    /\ proc' = "exited"
    /\ UNCHANGED <<passIdx, verVars, envVars, outVars>>
    /\ UNCHANGED <<extractVars, pathVars, wslCmdVars, cmdEnvVars, shellVars>>
    /\ UNCHANGED <<parseVars, configVars>>

\* the subprocess enters a state it never leaves (it waits for input, for a
\* lock, for the network) and will not exit
SubprocessHangs ==
    /\ proc = "running"
    /\ proc' = "hung"
    /\ UNCHANGED <<passIdx, verVars, envVars, outVars>>
    /\ UNCHANGED <<extractVars, pathVars, wslCmdVars, cmdEnvVars, shellVars>>
    /\ UNCHANGED <<parseVars, configVars>>

\* Command::output() returns once the subprocess has exited; while the
\* subprocess runs or hangs the scanner stays blocked in the call
OutputReturns ==
    /\ proc = "exited"
    /\ proc' = "none"
    /\ passIdx' = passIdx + 1
    /\ UNCHANGED <<verVars, envVars, outVars>>
    /\ UNCHANGED <<extractVars, pathVars, wslCmdVars, cmdEnvVars, shellVars>>
    /\ UNCHANGED <<parseVars, configVars>>

\* after the last subprocess the duplicates are removed and the catalog is
\* returned
PassReturns ==
    /\ proc = "none"
    /\ passIdx = Len(PassCalls)
    /\ ~catalog.done
    /\ catalog' = [done |-> TRUE, list |-> discover_system_installations]
    /\ UNCHANGED <<store, best, found, listing, passVars, verVars, envVars>>
    /\ UNCHANGED <<extractVars, pathVars, wslCmdVars, cmdEnvVars, shellVars>>
    /\ UNCHANGED <<parseVars, configVars>>

PassInit ==
    /\ HostInit /\ OutIdle /\ VerIdle /\ PassIdle
    /\ ParseIdle /\ ConfigIdle
    /\ ExtractIdle /\ PathIdle /\ WslCmdIdle /\ CmdEnvIdle /\ ShellIdle

PassNext ==
    \/ SpawnSubprocess
    \/ SubprocessExits
    \/ SubprocessHangs
    \/ OutputReturns
    \/ PassReturns

SpecPass == PassInit /\ [][PassNext]_vars

(***************************************************************************)
(* ShellEnvironment: Display and FromStr (shell_environment.rs:31-65)      *)
(***************************************************************************)
ShellEnvironments == {"Native", "Wsl", "GitBash"}

T_native == <<"n", "a", "t", "i", "v", "e">>
T_powershell == <<"p", "o", "w", "e", "r", "s", "h", "e", "l", "l">>
T_cmd == <<"c", "m", "d">>
T_wsl == <<"w", "s", "l">>
T_wsl2 == <<"w", "s", "l", "2">>
T_gitbash == <<"g", "i", "t", "b", "a", "s", "h">>
T_git_dash_bash == <<"g", "i", "t", "-", "b", "a", "s", "h">>
T_git_underscore_bash == <<"g", "i", "t", "_", "b", "a", "s", "h">>
T_bash == <<"b", "a", "s", "h">>

\* impl Display: the text written for a value
Display(e) ==
    CASE e = "Native" -> T_native
      [] e = "Wsl" -> T_wsl
      [] e = "GitBash" -> T_gitbash

\* Result<ShellEnvironment, String> of from_str
ParseOk(e) == [ok |-> TRUE, env |-> e]
ParseErr == [ok |-> FALSE, env |-> "(error)"]

\* the text matched as it is written (mutant of ToLowercase)
ToLowercaseKept(s) == s

\* str::to_lowercase on the characters of the model
ToLowercase(s) == [i \in 1..Len(s) |-> ToLower(s[i])]

\* impl FromStr: the match on s.to_lowercase()
from_str(s) ==
    LET t == ToLowercase(s)
    IN  IF t \in {T_native, T_powershell, T_cmd} THEN ParseOk("Native")
        ELSE IF t \in {T_wsl, T_wsl2} THEN ParseOk("Wsl")
        ELSE IF t \in {T_gitbash, T_git_dash_bash, T_git_underscore_bash, T_bash}
        THEN ParseOk("GitBash")
        ELSE ParseErr

\* s.parse().ok().unwrap_or_default() (commands/shell.rs:38-39); the default
\* value is Native
ParseOrDefault(s) == IF from_str(s).ok THEN from_str(s).env ELSE "Native"

(***************************************************************************)
(* ShellEnvironment harness: one call of from_str on a text                *)
(***************************************************************************)
ShellNames ==
    {T_native, T_powershell, T_cmd, T_wsl, T_wsl2, T_gitbash, T_git_dash_bash,
     T_git_underscore_bash, T_bash}

ToUpper(c) ==
    IF \E i \in 1..Len(LowerLetters) : LowerLetters[i] = c
    THEN UpperLetters[CHOOSE i \in 1..Len(LowerLetters) : LowerLetters[i] = c]
    ELSE c

\* a name in every mixture of upper and lower case
RECURSIVE CaseVariants(_)
CaseVariants(name) ==
    IF name = <<>> THEN {<<>>}
    ELSE {<<c>> \o t : c \in {Head(name), ToUpper(Head(name))},
                       t \in CaseVariants(Tail(name))}

\* a name with one character more, in front or behind
Neighbours(name) ==
    UNION {{<<c>> \o name, name \o <<c>>} : c \in {" ", "x", "2"}}

NameAlphabet == {"w", "s", "l", "2", "W", "c", "m", "D", " "}

ShellTextInputs ==
    UNION {[1..k -> NameAlphabet] : k \in 0..MaxNameLen}
       \cup UNION {CaseVariants(n) \cup Neighbours(n) :
                      n \in ShellNames \ {T_powershell}}
       \cup {T_powershell, [i \in 1..10 |-> ToUpper(T_powershell[i])],
             <<"P", "o", "w", "e", "r", "S", "h", "e", "l", "l">>}
       \cup {Display(e) : e \in ShellEnvironments}

ParseInit ==
    /\ shellText \in ShellTextInputs
    /\ parsed = [done |-> FALSE]
    /\ HostIdle /\ OutIdle /\ VerIdle /\ ExtractIdle /\ PathIdle /\ WslCmdIdle
    /\ CmdEnvIdle /\ ShellIdle /\ PassIdle /\ ConfigIdle

\* one call shellText.parse::<ShellEnvironment>()
ParseShellEnvironment ==
    /\ ~parsed.done
    /\ parsed' = [done |-> TRUE, res |-> from_str(shellText)]
    /\ UNCHANGED <<shellText, verVars, envVars, outVars, configVars>>
    /\ UNCHANGED <<extractVars, pathVars, wslCmdVars, cmdEnvVars, shellVars, passVars>>

ParseNext == ParseShellEnvironment

SpecParse == ParseInit /\ [][ParseNext]_vars

(***************************************************************************)
(* Shell configuration in the settings store (commands/shell.rs)           *)
(* The store is the table app_settings of agents.db.  Every call opens its *)
(* own connection and runs its statements one by one in autocommit mode:   *)
(* there is no transaction and no lock around a call, so each statement is *)
(* one step.  settings.exists is db_path.exists(); a database without the  *)
(* table reads like a table without rows (every query_row fails and .ok()  *)
(* makes it None), so the two are one state.  A write statement can fail   *)
(* (fault of the call: the statement an I/O error hits, at most one per    *)
(* call); reads of an existing database succeed.                           *)
(***************************************************************************)
OptionalKeys == <<"wsl_distro", "wsl_claude_path", "git_bash_path">>

ShellKeys == {"shell_environment"} \cup {OptionalKeys[i] : i \in 1..3}

\* struct ShellConfig
ShellConfig(e, d, p, g) ==
    [environment |-> e, wsl_distro |-> d, wsl_claude_path |-> p,
     git_bash_path |-> g]

\* #[derive(Default)]: Native and three None
DefaultShellConfig == ShellConfig("Native", None, None, None)

NoRows == [k \in ShellKeys |-> None]

\* the statements of a call, in program order
Statements ==
    <<"open", "create", "shell_environment", "wsl_distro", "wsl_claude_path",
      "git_bash_path">>

StatementAfter(pc) ==
    IF pc = "git_bash_path" THEN "returned"
    ELSE Statements[1 + CHOOSE i \in 1..6 : Statements[i] = pc]

IdleCall ==
    [op |-> "none", pc |-> "idle", distro |-> None, arg |-> DefaultShellConfig,
     fault |-> "none", before |-> [exists |-> FALSE, rows |-> NoRows],
     acc |-> DefaultShellConfig, res |-> "pending"]

\* the call returns res; auto_detect_wsl_claude returns Ok(Some(config))
\* when its save_shell_config(..).await? gave Ok(())
Return(call, res) ==
    [call EXCEPT !.pc = "returned",
                 !.res = IF call.op = "auto_detect" /\ res = "Ok" THEN "Some"
                         ELSE res]

\* the call is in save_shell_config, called by the frontend or by
\* auto_detect_wsl_claude
Saving(call) == call.op \in {"save", "auto_detect"}

\* a command of the frontend starts: call i is op(c); before remembers the
\* store at that moment
Invoke(i, op, c, f) ==
    /\ i \in DOMAIN calls
    /\ calls[i].pc = "idle"
    /\ calls' = [calls EXCEPT ![i] =
                    [IdleCall EXCEPT !.op = op, !.pc = "open", !.arg = c,
                                     !.fault = f, !.before = settings]]
    /\ UNCHANGED settings

\* save_shell_config: app_data_dir()? and Connection::open(..)?
SaveOpen(i) ==
    /\ i \in DOMAIN calls
    /\ Saving(calls[i]) /\ calls[i].pc = "open"
    /\ calls' = [calls EXCEPT ![i] =
                    IF @.fault = "open" THEN Return(@, "Err")
                    ELSE [@ EXCEPT !.pc = "create"]]
    /\ UNCHANGED settings

\* save_shell_config: CREATE TABLE IF NOT EXISTS app_settings ..?
SaveCreateTable(i) ==
    /\ i \in DOMAIN calls
    /\ Saving(calls[i]) /\ calls[i].pc = "create"
    /\ IF calls[i].fault = "create"
       THEN /\ calls' = [calls EXCEPT ![i] = Return(@, "Err")]
            /\ UNCHANGED settings
       ELSE /\ settings' = [settings EXCEPT !.exists = TRUE]
            /\ calls' = [calls EXCEPT ![i].pc = "shell_environment"]

\* save_shell_config: INSERT OR REPLACE of shell_environment with
\* config.environment.to_string() ?
SaveEnvironment(i) ==
    /\ i \in DOMAIN calls
    /\ Saving(calls[i]) /\ calls[i].pc = "shell_environment"
    /\ IF calls[i].fault = "shell_environment"
       THEN /\ calls' = [calls EXCEPT ![i] = Return(@, "Err")]
            /\ UNCHANGED settings
       ELSE /\ settings' =
                  [settings EXCEPT !.rows["shell_environment"] =
                      Some(Display(calls[i].arg.environment))]
            /\ calls' = [calls EXCEPT ![i].pc = "wsl_distro"]

\* conn.execute("DELETE FROM app_settings WHERE key = ..", []).ok(): the
\* result is dropped and the call goes on
DeleteRow(call, key) ==
    IF key = "git_bash_path" THEN Return(call, "Ok")
    ELSE [call EXCEPT !.pc = StatementAfter(key)]

\* save_shell_config: one optional field: INSERT OR REPLACE ..? when it is
\* Some, DELETE .. .ok() when it is None; Ok(()) after the last one
SaveOptional(i, key) ==
    /\ i \in DOMAIN calls
    /\ Saving(calls[i]) /\ calls[i].pc = key
    /\ IF calls[i].arg[key].some
       THEN IF calls[i].fault = key
            THEN /\ calls' = [calls EXCEPT ![i] = Return(@, "Err")]
                 /\ UNCHANGED settings
            ELSE /\ settings' = [settings EXCEPT !.rows[key] = calls[i].arg[key]]
                 /\ calls' = [calls EXCEPT ![i] =
                                 IF key = "git_bash_path" THEN Return(@, "Ok")
                                 ELSE [@ EXCEPT !.pc = StatementAfter(key)]]
       ELSE /\ settings' = IF calls[i].fault = key THEN settings
                           ELSE [settings EXCEPT !.rows[key] = None]
            /\ calls' = [calls EXCEPT ![i] = DeleteRow(@, key)]

\* get_shell_config: app_data_dir, db_path.exists() and Connection::open;
\* Ok(ShellConfig::default()) when there is no database
GetOpen(i) ==
    /\ i \in DOMAIN calls
    /\ calls[i].op = "get" /\ calls[i].pc = "open"
    /\ calls' = [calls EXCEPT ![i] =
                    IF settings.exists THEN [@ EXCEPT !.pc = "shell_environment"]
                    ELSE Return(@, "Ok")]
    /\ UNCHANGED settings

\* the value a SELECT of one key gives to its field of the config
FieldRead(rows, key) ==
    IF key = "shell_environment"
    THEN IF rows[key].some THEN ParseOrDefault(rows[key].v) ELSE "Native"
    ELSE rows[key]

FieldOf(key) == IF key = "shell_environment" THEN "environment" ELSE key

\* get_shell_config: one SELECT value FROM app_settings WHERE key = ..;
\* Ok(ShellConfig {..}) after the last one
GetRead(i, key) ==
    /\ i \in DOMAIN calls
    /\ calls[i].op = "get" /\ calls[i].pc = key
    /\ calls' = [calls EXCEPT ![i] =
                    LET read == [@ EXCEPT !.acc[FieldOf(key)] =
                                              FieldRead(settings.rows, key)]
                    IN  IF key = "git_bash_path" THEN Return(read, "Ok")
                        ELSE [read EXCEPT !.pc = StatementAfter(key)]]
    /\ UNCHANGED settings

\* one statement of a save_shell_config
SaveStep ==
    \E i \in DOMAIN calls :
        \/ SaveOpen(i)
        \/ SaveCreateTable(i)
        \/ SaveEnvironment(i)
        \/ \E k \in 1..3 : SaveOptional(i, OptionalKeys[k])

\* one statement of a get_shell_config
GetStep ==
    \E i \in DOMAIN calls :
        \/ GetOpen(i)
        \/ \E key \in ShellKeys : GetRead(i, key)

OtherIdle ==
    /\ HostIdle /\ OutIdle /\ VerIdle /\ ExtractIdle /\ PathIdle /\ WslCmdIdle
    /\ CmdEnvIdle /\ ShellIdle /\ PassIdle /\ ParseIdle

OtherUnchanged ==
    /\ UNCHANGED <<verVars, envVars, outVars, parseVars>>
    /\ UNCHANGED <<extractVars, pathVars, wslCmdVars, cmdEnvVars, shellVars, passVars>>

(***************************************************************************)
(* Settings harness: save_shell_config(c), then get_shell_config           *)
(***************************************************************************)
V_ubuntu == <<"Ubuntu">>
V_debian == <<"Debian">>
V_claude == <<"/usr/local/bin/claude">>
V_old_claude == <<"/home/user/.local/bin/claude">>
V_git_bash == <<GitBashPaths[1]>>
V_old_git_bash == <<GitBashPaths[2]>>

\* the configurations saved
Configs ==
    {ShellConfig(e, d, p, g) :
        e \in ShellEnvironments, d \in {None, Some(V_ubuntu)},
        p \in {None, Some(V_claude)}, g \in {None, Some(V_git_bash)}}

\* what the store may hold before: no database, or any rows, the
\* environment text included (an alias, or a text that is no environment)
EarlierStores ==
    {[exists |-> FALSE, rows |-> NoRows]}
       \cup {[exists |-> TRUE,
              rows |-> [k \in ShellKeys |->
                           CASE k = "shell_environment" -> e
                             [] k = "wsl_distro" -> d
                             [] k = "wsl_claude_path" -> p
                             [] k = "git_bash_path" -> g]] :
                e \in {None, Some(T_wsl2), Some(T_gitbash), Some(<<"z", "s", "h">>)},
                d \in {None, Some(V_debian)}, p \in {None, Some(V_old_claude)},
                g \in {None, Some(V_old_git_bash)}}

Faults == {"none"} \cup {Statements[i] : i \in 1..6}

SettingsInit ==
    /\ settings \in EarlierStores
    /\ calls = <<IdleCall, IdleCall>>
    /\ OtherIdle

\* call 1 is a save; call 2 is the get_shell_config after it has returned
SettingsNext ==
    \/ (\E c \in Configs, f \in Faults : Invoke(1, "save", c, f)) /\ OtherUnchanged
    \/ /\ calls[1].pc = "returned"
       /\ Invoke(2, "get", DefaultShellConfig, "none")
       /\ OtherUnchanged
    \/ SaveStep /\ OtherUnchanged
    \/ GetStep /\ OtherUnchanged

SpecSettings == SettingsInit /\ [][SettingsNext]_vars

(***************************************************************************)
(* Concurrent harness: two commands at once on one store                   *)
(* Tauri runs async commands on a thread pool, so the statements of two    *)
(* calls interleave; every statement succeeds here.                        *)
(***************************************************************************)
C_native == DefaultShellConfig
C_wsl == ShellConfig("Wsl", Some(V_ubuntu), Some(V_claude), None)
C_gitbash == ShellConfig("GitBash", None, None, Some(V_git_bash))

WholeConfigs == {C_native, C_wsl, C_gitbash}

\* the store after a save of c that ran alone and without a fault
StoreOf(c) ==
    [exists |-> TRUE,
     rows |-> [k \in ShellKeys |->
                  IF k = "shell_environment" THEN Some(Display(c.environment))
                  ELSE c[k]]]

ConcurrentInit ==
    /\ settings \in {StoreOf(c) : c \in WholeConfigs}
    /\ calls = <<IdleCall, IdleCall>>
    /\ OtherIdle

\* call 1 is a save; call 2 is a save or a get, at any time
ConcurrentNext ==
    \/ (\E i \in 1..2, c \in WholeConfigs : Invoke(i, "save", c, "none"))
          /\ OtherUnchanged
    \/ Invoke(2, "get", DefaultShellConfig, "none") /\ OtherUnchanged
    \/ SaveStep /\ OtherUnchanged
    \/ GetStep /\ OtherUnchanged

SpecConcurrent == ConcurrentInit /\ [][ConcurrentNext]_vars

(***************************************************************************)
(* auto_detect_wsl_claude (commands/shell.rs:160-211) and                  *)
(* check_claude_in_wsl (shell_environment.rs:234-272)                      *)
(* host.claudeIn[d] is what `wsl -d d bash -lc "command -v claude ||       *)
(* echo ''"` gives; the line end of its output is the blank token.         *)
(***************************************************************************)
ClaudeAnswer(host, name) ==
    IF name \in DOMAIN host.claudeIn THEN host.claudeIn[name]
    ELSE [status |-> "failed", out |-> <<>>]

\* check_claude_in_wsl(Some(name)): the trimmed output of a successful
\* command, unless it is empty or two quotes
check_claude_in_wsl(plat, host, name) ==
    LET answer == ClaudeAnswer(host, name)
        path == Trim(answer.out)
    IN  IF plat = "windows" /\ answer.status = "ok" /\ path # <<>>
           /\ path # <<"''">>
        THEN Some(path)
        ELSE None

\* distributions.iter().find(|d| d.is_default)
RECURSIVE FindDefault(_)
FindDefault(distributions) ==
    IF distributions = <<>> THEN None
    ELSE IF Head(distributions).is_default THEN Some(Head(distributions).name)
    ELSE FindDefault(Tail(distributions))

\* distro.or_else(|| find(is_default).or(first()).map(name))
TargetDistro(distro, distributions) ==
    IF distro.some THEN distro
    ELSE IF FindDefault(distributions).some THEN FindDefault(distributions)
    ELSE IF distributions # <<>> THEN Some(distributions[1].name)
    ELSE None

\* shells.git_bash_path as an Option
GitBashOption(path) == IF path = NoPath THEN None ELSE Some(<<path>>)

\* auto_detect_wsl_claude up to its call of save_shell_config: Ok(None), or
\* the config it goes on to save
AutoDetect(i) ==
    /\ i \in DOMAIN calls
    /\ calls[i].op = "auto_detect" /\ calls[i].pc = "detect"
    /\ LET found_shells == detect_available_shells(platform, shellHost)
           target == TargetDistro(calls[i].distro, found_shells.wsl_distributions)
           claude_path ==
               IF target.some
               THEN check_claude_in_wsl(platform, shellHost, target.v)
               ELSE None
       IN  calls' = [calls EXCEPT ![i] =
                IF found_shells.wsl_distributions = <<>> THEN Return(@, "None")
                ELSE IF claude_path.some
                THEN [@ EXCEPT !.pc = "open",
                               !.arg = ShellConfig("Wsl", target, claude_path,
                                          GitBashOption(found_shells.git_bash_path))]
                ELSE Return(@, "None")]
    /\ UNCHANGED settings

(***************************************************************************)
(* auto_detect_wsl_claude harness: one call on a host and a store          *)
(***************************************************************************)
V_arch == <<"Arch">>

\* `wsl --list --verbose`: not there, or the header and up to two lines
AutoDetectListings ==
    {[status |-> "error", lines |-> <<>>]}
       \cup {[status |-> "ok", lines |-> <<L_header>> \o l] :
                l \in UNION {[1..k -> {L_default_ubuntu, L_default_debian, L_debian}] :
                                k \in 0..2}}

ClaudeAnswers ==
    {[status |-> "failed", out |-> <<>>],
     [status |-> "ok", out |-> <<" ">>],
     [status |-> "ok", out |-> <<"''", " ">>],
     [status |-> "ok", out |-> V_claude \o <<" ">>]}

AutoDetectInit ==
    /\ platform \in {"unix", "windows"}
    /\ shellHost \in
          IF platform = "windows"
          THEN [listed : {TRUE}, wslList : AutoDetectListings,
                git : {[files |-> f, whereOut |-> NoPath] :
                          f \in {{}, {GitBashPaths[1]}}},
                claudeIn : [{V_ubuntu, V_debian} -> ClaudeAnswers]]
          ELSE [listed : {TRUE},
                wslList : {[status |-> "error", lines |-> <<>>]},
                git : {[files |-> {}, whereOut |-> NoPath]},
                claudeIn : [{V_ubuntu, V_debian} -> {[status |-> "failed", out |-> <<>>]}]]
    /\ settings \in {[exists |-> FALSE, rows |-> NoRows], StoreOf(C_gitbash)}
    /\ calls = <<IdleCall>>
    /\ shells = [done |-> FALSE]
    /\ HostRestIdle /\ OutIdle /\ VerIdle /\ ExtractIdle /\ PathIdle
    /\ WslCmdIdle /\ CmdEnvIdle /\ PassIdle /\ ParseIdle

\* the frontend calls auto_detect_wsl_claude(distro)
InvokeAutoDetect(i, distro, f) ==
    /\ i \in DOMAIN calls
    /\ calls[i].pc = "idle"
    /\ calls' = [calls EXCEPT ![i] =
                    [IdleCall EXCEPT !.op = "auto_detect", !.pc = "detect",
                                     !.distro = distro, !.fault = f,
                                     !.before = settings]]
    /\ UNCHANGED settings

AutoDetectNext ==
    \/ (\E d \in {None, Some(V_ubuntu), Some(V_debian), Some(V_arch)}, f \in Faults :
           InvokeAutoDetect(1, d, f)) /\ OtherUnchanged
    \/ AutoDetect(1) /\ OtherUnchanged
    \/ SaveStep /\ OtherUnchanged

SpecAutoDetect == AutoDetectInit /\ [][AutoDetectNext]_vars

(***************************************************************************)
(* Properties of the catalog and of the selection (checked under Spec)     *)
(***************************************************************************)
\* the first entry of seq whose path is p
FirstWithPath(seq, p) ==
    seq[CHOOSE i \in 1..Len(seq) :
            seq[i].path = p /\ \A j \in 1..(i - 1) : seq[j].path # p]

\* C1: the catalog returned by discover_system_installations holds no two
\* entries with the same path; every path a scanner reported is kept once, and
\* the entry kept is the one of the first scanner (which/where, NVM, standard
\* paths) that reported it.
C1_CatalogPathsUnique ==
    catalog.done =>
        LET scanned == ScannedIn(dirOrder)
            cat == catalog.list
        IN  /\ \A i, j \in 1..Len(cat) : i # j => cat[i].path # cat[j].path
            /\ \A k \in 1..Len(scanned) : \E i \in 1..Len(cat) : cat[i].path = scanned[k].path
            /\ \A i \in 1..Len(cat) :
                  /\ \E k \in 1..Len(scanned) : scanned[k].path = cat[i].path
                  /\ cat[i] = FirstWithPath(scanned, cat[i].path)

\* C1 witness: two scanners reported one path under different source tags, and
\* the catalog holds the entry of the earlier one.
C1_Witness ==
    /\ catalog.done
    /\ LET scanned == ScannedIn(dirOrder)
       IN  \E i, j \in 1..Len(scanned) :
              /\ i < j
              /\ scanned[i].path = scanned[j].path
              /\ scanned[i].source # scanned[j].source
              /\ \A h \in 1..(i - 1) : scanned[h].path # scanned[i].path
              /\ \E k \in 1..Len(catalog.list) : catalog.list[k] = scanned[i]

\* C2: when the catalog holds a candidate with a version, select_best returns
\* a candidate with a version.
C2_VersionedWins ==
    (best.some /\ \E i \in 1..Len(catalog.list) : catalog.list[i].version.some)
        => best.inst.version.some

\* C2 witness: the versioned candidate chosen stands before an unversioned
\* candidate of a more trusted source.
C2_Witness ==
    /\ best.some
    /\ best.inst.version.some
    /\ \E i, j \in 1..Len(catalog.list) :
          /\ i < j
          /\ catalog.list[i] = best.inst
          /\ ~catalog.list[j].version.some
          /\ source_preference(catalog.list[j]) < source_preference(best.inst)

\* C3 (as claimed): when no candidate has a version and the catalog holds a
\* path other than the bare fallback name of the platform, select_best does not
\* return the bare fallback name.
C3_BareNameNeverChosen ==
    ( /\ best.some
      /\ \A i \in 1..Len(catalog.list) : ~catalog.list[i].version.some
      /\ \E i \in 1..Len(catalog.list) : catalog.list[i].path # BareName(platform) )
        => best.inst.path # BareName(platform)

\* C4 (as claimed): the path select_best chooses does not depend on the order
\* in which the file system enumerates the NVM version directories.
C4_OrderIndependent ==
    best.some =>
        \A o \in DirOrders :
            select_best_installation(DiscoverIn(o)).inst.path = best.inst.path

\* C5: without a usable stored path, find_claude_binary fails exactly when the
\* discovered catalog is empty, then with the not-found message; for a
\* non-empty catalog select_best returns one of its candidates, the result is
\* that candidate's path, and the "No valid Claude installation found" error
\* is never produced.
C5_FailsOnlyOnEmptyCatalog ==
    (found.status # "none" /\ ~StoredPathUsable(store)) =>
        /\ catalog.done
        /\ found.status = "err" <=> catalog.list = <<>>
        /\ found.status = "err" => found.msg = NotFoundMsg
        /\ found.msg # NoValidMsg
        /\ catalog.list # <<>> =>
              /\ best.some
              /\ \E i \in 1..Len(catalog.list) : catalog.list[i] = best.inst
              /\ found = Ok(best.inst.path)

\* C5 witness: a catalog of candidates none of which has a version, and a path
\* returned.
C5_Witness ==
    /\ found.status = "ok"
    /\ ~StoredPathUsable(store)
    /\ Len(catalog.list) >= 2
    /\ \A i \in 1..Len(catalog.list) : ~catalog.list[i].version.some

\* C6: the list returned by discover_claude_installations is a reordering of
\* the catalog in which, for adjacent entries, no versioned entry follows an
\* unversioned one, no higher version follows a lower one, and among equal
\* versions or two unversioned entries the source preference does not decrease.
C6_ListingSorted ==
    listing.done =>
        LET l == listing.list
        IN  /\ Len(l) = Len(catalog.list)
            /\ {l[i] : i \in 1..Len(l)} = {catalog.list[i] : i \in 1..Len(l)}
            /\ \A i \in 1..(Len(l) - 1) :
                  LET a == l[i]
                      b == l[i + 1]
                  IN  /\ ~(~a.version.some /\ b.version.some)
                      /\ (a.version.some /\ b.version.some)
                            => compare_versions(a.version.v, b.version.v) # "Less"
                      /\ ( \/ (~a.version.some /\ ~b.version.some)
                           \/ ( /\ a.version.some /\ b.version.some
                                /\ compare_versions(a.version.v, b.version.v) = "Equal" ) )
                            => source_preference(a) <= source_preference(b)

\* C6 witness: a listing of several entries, with and without a version, that
\* differs from the catalog's order.
C6_Witness ==
    /\ listing.done
    /\ listing.list # catalog.list
    /\ \E i, j \in 1..Len(listing.list) :
          listing.list[i].version.some /\ ~listing.list[j].version.some

\* both versioned, and the versions compare Equal
EqualVersions(a, b) ==
    /\ a.version.some
    /\ b.version.some
    /\ compare_versions(a.version.v, b.version.v) = "Equal"

\* the trust order the claim states: ambient lookup, active NVM session, NVM
\* directory scan, fixed standard paths, bare-name PATH fallback
ClaimedScannerRank(inst) ==
    CASE inst.source \in {"which", "where"} -> 1
      [] inst.source = "nvm-active" -> 2
      [] inst.source \in {NvmSource(n) : n \in NodeVersions} -> 3
      [] inst.source = "PATH" -> 5
      [] OTHER -> 4

\* C7 (as claimed): among candidates of equal version found on the host (WSL
\* candidates aside), the listing runs in scanner order.
C7_ScannerOrder ==
    listing.done =>
        \A i, j \in 1..Len(listing.list) :
            ( /\ i < j
              /\ EqualVersions(listing.list[i], listing.list[j])
              /\ listing.list[i].wsl_distro = NoDistro
              /\ listing.list[j].wsl_distro = NoDistro )
                => ClaimedScannerRank(listing.list[i]) <= ClaimedScannerRank(listing.list[j])

\* the trust order of the source tags: which; standard paths tagged homebrew or
\* system; nvm-active; NVM directory scan; the other standard paths; PATH; every
\* source without a number of its own (where, wsl)
TrustClass(inst) ==
    CASE inst.source = "which" -> 1
      [] inst.source \in {"homebrew", "system"} -> 2
      [] inst.source = "nvm-active" -> 3
      [] inst.source \in {NvmSource(n) : n \in NodeVersions} -> 4
      [] inst.source \in {"local-bin", "claude-local", "npm-global", "yarn",
                          "yarn-global", "bun", "node-modules", "home-bin"} -> 5
      [] inst.source = "PATH" -> 6
      [] OTHER -> 7

\* C7 (amended): among candidates of equal version the listing runs by the
\* source tag: which, then homebrew and system standard paths, then nvm-active,
\* then the NVM directory scan, then the other standard paths, then PATH, then
\* the sources the table does not name (where, wsl).
C7_SourceTagOrder ==
    listing.done =>
        \A i, j \in 1..Len(listing.list) :
            (i < j /\ EqualVersions(listing.list[i], listing.list[j]))
                => TrustClass(listing.list[i]) <= TrustClass(listing.list[j])

\* C7 witness: a standard-path candidate tagged homebrew or system listed
\* before the active NVM session's candidate of the same version.
C7_Witness ==
    /\ listing.done
    /\ \E i, j \in 1..Len(listing.list) :
          /\ i < j
          /\ EqualVersions(listing.list[i], listing.list[j])
          /\ listing.list[i].source \in {"homebrew", "system"}
          /\ listing.list[j].source = "nvm-active"

(***************************************************************************)
(* Properties of compare_versions (checked under SpecVer)                  *)
(***************************************************************************)
\* C8: compare_versions(a, b) is the reverse of compare_versions(b, a),
\* compare_versions(a, a) is Equal, and if neither compare_versions(a, b) nor
\* compare_versions(b, c) is Greater then compare_versions(a, c) is not Greater.
C8_TotalOrder ==
    ord # "none" =>
        /\ ord = Reverse(compare_versions(vb, va))
        /\ va = vb => ord = "Equal"
        /\ \A c \in VersionInputs :
              (ord # "Greater" /\ compare_versions(vb, c) # "Greater")
                  => compare_versions(va, c) # "Greater"

\* C8 witness: two versions of different length compared, the shorter one
\* first, with the result Less.
C8_Witness == va = V_1_2 /\ vb = V_1_2_9 /\ ord = "Less"

\* a non-empty run of ASCII digits
IsDigitString(t) == t # <<>> /\ \A i \in 1..Len(t) : t[i] \in AsciiDigits

\* every dot-separated segment is a non-empty run of ASCII digits
AllNumeric(s) ==
    \A i \in 1..Len(Split(s, ".")) : IsDigitString(Split(s, ".")[i])

RECURSIVE RefStrip(_)
RefStrip(ds) == IF ds # <<>> /\ Head(ds) = 0 THEN RefStrip(Tail(ds)) ELSE ds

\* the natural number a digit string denotes, as a numeral of any length
RefNat(t) == RefStrip([i \in 1..Len(t) |-> DigitVal(t[i])])

RECURSIVE RefCmpNat(_, _)
RefCmpNat(x, y) ==
    IF Len(x) # Len(y) THEN (IF Len(x) < Len(y) THEN "Less" ELSE "Greater")
    ELSE IF x = <<>> THEN "Equal"
    ELSE IF Head(x) # Head(y) THEN (IF Head(x) < Head(y) THEN "Less" ELSE "Greater")
    ELSE RefCmpNat(Tail(x), Tail(y))

RefIntSeq(s) == [i \in 1..Len(Split(s, ".")) |-> RefNat(Split(s, ".")[i])]

RECURSIVE RefLexFrom(_, _, _)
\* lexicographic comparison of two integer sequences, the shorter one padded
\* with zeros
RefLexFrom(x, y, i) ==
    IF i > Len(x) /\ i > Len(y) THEN "Equal"
    ELSE LET c == RefCmpNat(IF i <= Len(x) THEN x[i] ELSE <<>>,
                            IF i <= Len(y) THEN y[i] ELSE <<>>)
         IN  IF c = "Equal" THEN RefLexFrom(x, y, i + 1) ELSE c

RefCompare(a, b) == RefLexFrom(RefIntSeq(a), RefIntSeq(b), 1)

\* every segment denotes a number of at most u32::MAX
FitsU32(s) ==
    \A i \in 1..Len(RefIntSeq(s)) : RefCmpNat(RefIntSeq(s)[i], U32MaxNumeral) # "Greater"

\* C9 (as claimed): for all-numeric dotted versions compare_versions is the
\* lexicographic comparison of the integer sequences, the shorter one padded
\* with zeros.
C9_NumericLexicographic ==
    (ord # "none" /\ AllNumeric(va) /\ AllNumeric(vb)) => ord = RefCompare(va, vb)

\* C9 (amended): the same for all-numeric dotted versions whose segments are
\* each at most u32::MAX = 4294967295.
C9_NumericLexicographicU32 ==
    (ord # "none" /\ AllNumeric(va) /\ AllNumeric(vb) /\ FitsU32(va) /\ FitsU32(vb))
        => ord = RefCompare(va, vb)

\* C9 witness: "1.2.10" compared with "1.2.9" is Greater.
C9_Witness == va = V_1_2_10 /\ vb = V_1_2_9 /\ ord = "Greater"

RECURSIVE ZeroFillParse(_)
\* the parts as the claim describes them: a segment that does not parse counts
\* as 0 in its own position
ZeroFillParse(segs) ==
    IF segs = <<>> THEN <<>>
    ELSE LET r == ParseU32(TakeWhileNumeric(Head(segs)))
         IN  <<IF r.ok THEN r.val ELSE Zero>> \o ZeroFillParse(Tail(segs))

\* C10 (as claimed): a segment without leading digits, or whose digits do not
\* parse, counts as 0 in its own position and the segments after it keep their
\* positions.
C10_UnparsedSegmentIsZero ==
    ord # "none" =>
        ord = ComparePartsFrom(ZeroFillParse(Split(va, ".")),
                               ZeroFillParse(Split(vb, ".")), 1)

(***************************************************************************)
(* Properties of the version extractor and of suffixed versions            *)
(***************************************************************************)
\* the N.N.N at the head of a version the extractor returns
BareOf(v) == SubSeq(v, 1, MatchCoreAt(v, 1))

\* v is a string the extractor can return: N.N.N with an optional -suffix
\* and/or +suffix, and nothing else
Extractable(v) == extract_version_from_output(v) = Some(v)

\* C11: compare_versions ignores pre-release and build suffixes: a version
\* N.N.N followed by any suffix the extractor can return with it (also one
\* that holds dots and digits, as "-b.2") compares Equal to the bare N.N.N.
\* Checked under SpecVer.
C11_SuffixIgnored ==
    (ord # "none" /\ Extractable(va) /\ vb = BareOf(va)) => ord = "Equal"

\* s[i..j] is a non-empty run of digits
RefDigits(s, i, j) == i <= j /\ \A k \in i..j : s[k] \in AsciiDigits

\* s[i..j] reads digits.digits.digits
RefCore(s, i, j) ==
    \E a, b \in i..j :
        /\ a < b
        /\ RefDigits(s, i, a - 1) /\ s[a] = "."
        /\ RefDigits(s, a + 1, b - 1) /\ s[b] = "."
        /\ RefDigits(s, b + 1, j)

\* s[i..j] is lead followed by one or more of [a-zA-Z0-9.-]
RefSuffix(s, i, j, lead) ==
    i < j /\ s[i] = lead /\ \A k \in (i + 1)..j : SuffixChar(s[k])

\* s[i..j] reads digits.digits.digits, then an optional pre-release suffix,
\* then an optional build suffix
RefPattern(s, i, j) ==
    \E c, p \in i..j :
        /\ c <= p
        /\ RefCore(s, i, c)
        /\ p = c \/ RefSuffix(s, c + 1, p, "-")
        /\ p = j \/ RefSuffix(s, p + 1, j, "+")

RefStarts(s) == {i \in 1..Len(s) : \E j \in i..Len(s) : RefPattern(s, i, j)}

RefLeftmost(s) == CHOOSE i \in RefStarts(s) : \A k \in RefStarts(s) : i <= k

RefEnd(s, i) ==
    CHOOSE j \in i..Len(s) :
        RefPattern(s, i, j) /\ \A k \in i..Len(s) : RefPattern(s, i, k) => k <= j

\* C12: extract_version_from_output returns the leftmost substring that reads
\* digits.digits.digits with its optional pre-release and build suffix,
\* unmodified, and returns nothing exactly when the text holds no
\* digits.digits.digits; every call returns.  Checked under SpecExtract.
C12_LeftmostMatchVerbatim ==
    extracted.done =>
        /\ extracted.res.some
             <=> \E i, j \in 1..Len(outText) : RefCore(outText, i, j)
        /\ extracted.res.some =>
             extracted.res.v =
                SubSeq(outText, RefLeftmost(outText),
                       RefEnd(outText, RefLeftmost(outText)))

\* a version with both suffixes found in the middle of the text
C12_Witness ==
    /\ extracted.done
    /\ outText = O_1_2_3_beta_2_build
    /\ extracted.res =
         Some(<<"1", ".", "2", ".", "3", "-", "b", ".", "2", "+", "g", "7">>)

(***************************************************************************)
(* Properties of the version probe inside discovery (checked under Spec)   *)
(***************************************************************************)
\* C13: every file that exists at a scanned location (standard path, NVM_BIN,
\* NVM version directory) is in the catalog whether or not its --version
\* probe gives a version; a failed probe leaves the entry without version,
\* the call still returns, and the files at the other locations are in the
\* catalog as well.
C13_ProbeFailureAbsorbed ==
    catalog.done =>
        \A p \in ExistingFiles :
            \E i \in 1..Len(catalog.list) :
                /\ catalog.list[i].path = p
                /\ catalog.list[i].version = fs[p].version

\* a file whose probe failed is listed without version, and a file found by
\* a later scanner with a version is listed after it
C13_Witness ==
    /\ catalog.done
    /\ \E i, j \in 1..Len(catalog.list) :
          /\ i < j
          /\ catalog.list[i].path \in ExistingFiles
          /\ fs[catalog.list[i].path].version = None
          /\ catalog.list[i].version = None
          /\ catalog.list[j].path \in ExistingFiles
          /\ catalog.list[j].version.some

(***************************************************************************)
(* Properties of windows_to_wsl_path (checked under SpecPath)              *)
(***************************************************************************)
\* s with every backslash turned into a forward slash
RefSlashes(s) == [i \in 1..Len(s) |-> IF s[i] = "\\" THEN "/" ELSE s[i]]

RefRest(s, k) == SubSeq(s, k + 1, Len(s))

RefIsLower(c) == \E i \in 1..Len(LowerLetters) : LowerLetters[i] = c

\* C14: on the bridging build windows_to_wsl_path maps every drive-letter
\* path <letter>:<rest> to "/mnt/", the lower-cased letter and <rest> with
\* every backslash replaced by a forward slash, for upper- and lower-case
\* drive letters alike.
C14_DriveLetterPath ==
    (/\ wslPath.done
     /\ platform = "windows"
     /\ Len(winPath) >= 2
     /\ winPath[1] \in AsciiLetters
     /\ winPath[2] = ":")
    => /\ wslPath.path =
            MntPrefix \o <<ToLower(winPath[1])>> \o RefSlashes(RefRest(winPath, 2))
       /\ RefIsLower(wslPath.path[6])

\* the path of the unit test, and a lower-case drive letter
C14_Witness ==
    /\ wslPath.done
    /\ platform = "windows"
    /\ \/ /\ winPath = P_drive
          /\ wslPath.path =
               <<"/", "m", "n", "t", "/", "c", "/", "U", "s", "e", "r", "s", "/",
                 "t", "e", "s", "t", "/", "p", "r", "o", "j", "e", "c", "t">>
       \/ /\ winPath = <<"d", ":", "\\", "C">>
          /\ wslPath.path = <<"/", "m", "n", "t", "/", "d", "/", "C">>

RefSeparator(c) == c \in {"\\", "/"}

\* winPath is a WSL UNC head, a distribution name that ends at position k,
\* and then nothing or a separator
RefWslUncSplit(k) ==
    \E h \in {WslLocalhostPrefix, WslDollarPrefix} :
        /\ Len(winPath) > Len(h)
        /\ SubSeq(RefSlashes(winPath), 1, Len(h)) = h
        /\ k \in (Len(h) + 1)..Len(winPath)
        /\ \A i \in (Len(h) + 1)..k : ~RefSeparator(winPath[i])
        /\ k < Len(winPath) => RefSeparator(winPath[k + 1])

\* C15: for every path that starts with \\wsl.localhost\<distro> or
\* \\wsl$\<distro>, windows_to_wsl_path drops the distribution name and
\* returns only the path that follows it, with forward slashes; when nothing
\* follows the distribution name the result holds no distribution name.
C15_DistroDropped ==
    (wslPath.done /\ platform = "windows") =>
        \A k \in 1..Len(winPath) :
            RefWslUncSplit(k) =>
                IF k < Len(winPath)
                THEN wslPath.path = RefSlashes(RefRest(winPath, k))
                ELSE wslPath.path \in {<<>>, <<"/">>}

RECURSIVE RefBashWords(_, _, _, _, _)
RefBashWords(s, i, mode, cur, open) ==
    IF i > Len(s)
    THEN IF mode # "plain" THEN <<cur \o <<"<unterminated>">> >>
         ELSE IF open THEN <<cur>> ELSE <<>>
    ELSE IF mode = "plain"
    THEN CASE s[i] = " " ->
                (IF open THEN <<cur>> ELSE <<>>)
                   \o RefBashWords(s, i + 1, "plain", <<>>, FALSE)
           [] s[i] = "\"" -> RefBashWords(s, i + 1, "double", cur, TRUE)
           [] s[i] = "'" -> RefBashWords(s, i + 1, "single", cur, TRUE)
           [] s[i] = "\\" /\ i < Len(s) ->
                RefBashWords(s, i + 2, "plain", Append(cur, s[i + 1]), TRUE)
           [] s[i] \in {"$", Backtick} ->
                RefBashWords(s, i + 1, "plain", Append(cur, "<expansion>"), TRUE)
           [] OTHER -> RefBashWords(s, i + 1, "plain", Append(cur, s[i]), TRUE)
    ELSE IF mode = "double"
    THEN CASE s[i] = "\"" -> RefBashWords(s, i + 1, "plain", cur, TRUE)
           [] s[i] = "\\" /\ i < Len(s) /\ s[i + 1] \in {"\\", "\"", "$", Backtick} ->
                RefBashWords(s, i + 2, "double", Append(cur, s[i + 1]), TRUE)
           [] s[i] \in {"$", Backtick} ->
                RefBashWords(s, i + 1, "double", Append(cur, "<expansion>"), TRUE)
           [] OTHER -> RefBashWords(s, i + 1, "double", Append(cur, s[i]), TRUE)
    ELSE IF s[i] = "'" THEN RefBashWords(s, i + 1, "plain", cur, TRUE)
    ELSE RefBashWords(s, i + 1, "single", Append(cur, s[i]), TRUE)

\* the text of the command line from the first double quote on
RefFromFirstQuote(s) ==
    IF Find(s, "\"") = 0 THEN <<>> ELSE SubSeq(s, Find(s, "\""), Len(s))

\* C17: in the bash command string built by create_wsl_command every argument
\* is its own double-quoted word, in the given order, with each backslash,
\* double quote, dollar and backtick escaped by one backslash: the words bash
\* reads after "cd <dir> && <claude_path>" are exactly the argument list.
C17_ArgsRoundTrip ==
    (wslCmd.done /\ platform = "windows") =>
        /\ RefBashWords(wslCmd.bashCommand, 1, "plain", <<>>, FALSE) =
              <<<<"c", "d">>,
                windows_to_wsl_path(platform, cmdArgs.ctx.working_dir),
                <<"&", "&">>, cmdArgs.ctx.claude_path>> \o cmdArgs.args
        /\ \E n \in 0..Len(wslCmd.bashCommand) :
              /\ SubSeq(wslCmd.bashCommand, n + 1, Len(wslCmd.bashCommand)) =
                    JoinQuoted(cmdArgs.args)
              /\ n > 0 => wslCmd.bashCommand[n] = " "

\* two arguments that hold all four special characters between them
C17_Witness ==
    /\ wslCmd.done
    /\ platform = "windows"
    /\ cmdArgs.args = <<A_backtick, A_dollar_quote>>
    /\ cmdArgs.ctx.working_dir = P_quote
    /\ RefFromFirstQuote(wslCmd.bashCommand) =
         <<"\"", "\\", Backtick, "a", "\\", "\\", "\\", Backtick, "\"", " ",
           "\"", "\\", "$", "(", "a", ")", "\\", "\"", "'", "\"">>

(***************************************************************************)
(* Properties of create_command_with_env (checked under SpecCmdEnv)        *)
(***************************************************************************)
\* the allow-list as the claim gives it
RefAllowList ==
    {"PATH", "HOME", "USER", "SHELL", "LANG", "LC_ALL", "LC_CTYPE", "NODE_PATH",
     "NVM_DIR", "NVM_BIN", "HOMEBREW_PREFIX", "HOMEBREW_CELLAR", "HTTP_PROXY",
     "HTTPS_PROXY", "NO_PROXY", "ALL_PROXY"}

\* C18: the command built by create_command_with_env runs with an environment
\* that holds only allow-listed variables of the parent process; every other
\* variable of the parent environment is absent from the child's environment.
C18_OnlyAllowListedEnv ==
    childCmd.done =>
        \A n \in DOMAIN parentEnv :
            n \notin RefAllowList => n \notin DOMAIN childCmd.childEnv

(***************************************************************************)
(* Properties of detect_available_shells (checked under SpecShells)        *)
(***************************************************************************)
RefDefaults ==
    {i \in 1..Len(shells.wsl_distributions) : shells.wsl_distributions[i].is_default}

\* the lines after the header whose first non-blank token is "*"
RefStarredLines ==
    {k \in 2..Len(shellHost.wslList.lines) :
        \E j \in 1..Len(shellHost.wslList.lines[k]) :
            /\ shellHost.wslList.lines[k][j] = "*"
            /\ \A h \in 1..(j - 1) : shellHost.wslList.lines[k][h] = " "}

C20_PassNeverBlocked == catalog.done \/ ENABLED PassNext

(***************************************************************************)
(* Properties of find_claude_binary and of the WSL scanner (under Spec)    *)
(***************************************************************************)
\* what select_best_installation gives on the catalog that discovery returned
RefDiscoveryResult ==
    IF catalog.list = <<>> THEN Err(NotFoundMsg)
    ELSE IF select_best_installation(catalog.list).some
    THEN Ok(select_best_installation(catalog.list).inst.path)
    ELSE Err(NoValidMsg)

C27_EveryWslDistroListed ==
    (catalog.done /\ platform = "windows") =>
        \A d \in DOMAIN wsl :
            wsl[d].found =>
                \E i \in 1..Len(catalog.list) : catalog.list[i].wsl_distro = d

(***************************************************************************)
(* Properties of ShellEnvironment parsing (checked under SpecParse)        *)
(***************************************************************************)
\* text is name up to the case of its letters
RefSameIgnoringCase(text, name) ==
    /\ Len(text) = Len(name)
    /\ \A i \in 1..Len(text) :
          \/ text[i] = name[i]
          \/ \E k \in 1..Len(UpperLetters) :
                UpperLetters[k] = text[i] /\ LowerLetters[k] = name[i]

RefNamesIn(text, names) == \E n \in names : RefSameIgnoringCase(text, n)

\* C22: parsing the text that Display produces for a ShellEnvironment value
\* gives the value back; parsing ignores letter case, maps native,
\* powershell and cmd to Native, wsl and wsl2 to Wsl, gitbash, git-bash,
\* git_bash and bash to GitBash, and returns an error for every other string.
C22_ParseDisplayRoundTrip ==
    parsed.done =>
        /\ \A e \in ShellEnvironments :
              shellText = Display(e) => parsed.res = ParseOk(e)
        /\ parsed.res =
              IF RefNamesIn(shellText, {T_native, T_powershell, T_cmd})
              THEN ParseOk("Native")
              ELSE IF RefNamesIn(shellText, {T_wsl, T_wsl2})
              THEN ParseOk("Wsl")
              ELSE IF RefNamesIn(shellText, {T_gitbash, T_git_dash_bash,
                                             T_git_underscore_bash, T_bash})
              THEN ParseOk("GitBash")
              ELSE ParseErr

\* an alias in mixed case is parsed, and a name with a blank in front is not
C22_Witness ==
    /\ parsed.done
    /\ \/ shellText = <<"G", "i", "t", "-", "B", "a", "s", "h">>
          /\ parsed.res = ParseOk("GitBash")
       \/ shellText = <<" ", "w", "s", "l">> /\ parsed.res = ParseErr

(***************************************************************************)
(* Properties of the stored shell configuration (under SpecSettings)       *)
(***************************************************************************)
\* C23: whenever save_shell_config(c) returns Ok and no other writer runs,
\* the next get_shell_config returns a config equal to c in all four fields,
\* for every c and every earlier store content: an optional field that is
\* None in c is absent afterwards.
C23_GetReturnsSaved ==
    (Len(calls) = 2 /\ calls[1].op = "save" /\ calls[1].res = "Ok"
        /\ calls[2].op = "get" /\ calls[2].pc = "returned")
    => calls[2].acc = calls[1].arg

\* C25: if save_shell_config returns an error, the four shell settings held
\* in the store are the same as before the call.
C25_FailedSaveKeepsStore ==
    (Len(calls) = 2 /\ calls[1].op = "save" /\ calls[1].res = "Err")
    => settings.rows = calls[1].before.rows

(***************************************************************************)
(* Properties of concurrent configuration calls (under SpecConcurrent)     *)
(***************************************************************************)
\* what a get_shell_config that reads the four rows at once returns
RefConfigOf(rows) ==
    ShellConfig(FieldRead(rows, "shell_environment"), rows["wsl_distro"],
                rows["wsl_claude_path"], rows["git_bash_path"])

\* C24: configuration operations are atomic with respect to each other:
\* after two concurrent saves of c1 and c2 the store holds exactly c1 or
\* exactly c2, and a get_shell_config concurrent with a save returns the
\* old configuration or the new one.
C24_ConfigCallsAtomic ==
    Len(calls) = 2 =>
        /\ (/\ calls[1].op = "save" /\ calls[1].res = "Ok"
            /\ calls[2].op = "save" /\ calls[2].res = "Ok")
           => settings \in {StoreOf(calls[1].arg), StoreOf(calls[2].arg)}
        /\ (/\ calls[1].op = "save"
            /\ calls[2].op = "get" /\ calls[2].pc = "returned")
           => calls[2].acc \in {RefConfigOf(calls[1].before.rows), calls[1].arg}

(***************************************************************************)
(* Properties of auto_detect_wsl_claude (under SpecAutoDetect)             *)
(***************************************************************************)
RefDistributions == detect_available_shells(platform, shellHost).wsl_distributions

\* the requested distribution, else the default one, else the first listed
RefTarget(distro) ==
    IF distro.some THEN distro.v
    ELSE IF \E k \in 1..Len(RefDistributions) : RefDistributions[k].is_default
    THEN LET k == CHOOSE k \in 1..Len(RefDistributions) :
                     /\ RefDistributions[k].is_default
                     /\ \A j \in 1..(k - 1) : ~RefDistributions[j].is_default
         IN  RefDistributions[k].name
    ELSE RefDistributions[1].name

\* Claude is found in the target distribution of the call
RefClaudeFound(call) ==
    /\ RefDistributions # <<>>
    /\ check_claude_in_wsl(platform, shellHost, RefTarget(call.distro)).some

\* C26: auto_detect_wsl_claude changes the settings store only when Claude
\* is found in the target distribution (the requested one, else the default
\* one, else the first listed): when no WSL distribution is detected or
\* Claude is not found it returns None with the store unchanged, and when it
\* returns Some(config) that config has environment Wsl, the target
\* distribution and the found path and is the configuration held in the
\* store.
C26_AutoDetectStoresWhatItReturns ==
    (Len(calls) = 1 /\ calls[1].op = "auto_detect") =>
        LET call == calls[1]
        IN  /\ settings # call.before => RefClaudeFound(call)
            /\ (call.pc = "returned" /\ ~RefClaudeFound(call))
               => (call.res = "None" /\ settings = call.before)
            /\ call.res = "None" => settings = call.before
            /\ call.res = "Some" =>
                  /\ RefClaudeFound(call)
                  /\ call.arg.environment = "Wsl"
                  /\ call.arg.wsl_distro = Some(RefTarget(call.distro))
                  /\ call.arg.wsl_claude_path =
                        check_claude_in_wsl(platform, shellHost,
                                            RefTarget(call.distro))
                  /\ RefConfigOf(settings.rows) = call.arg

====
